---- MODULE Spec2Model ----
(***************************************************************************)
(* Model of the real-estate search agent's metadata filter compiler        *)
(* (src/src/real_estate_agent/pinecone_client.py, agent.py) and of the     *)
(* evaluation pipeline's response parser                                   *)
(* (src/evaluation/performance_pipeline.py).                               *)
(***************************************************************************)
EXTENDS Integers, Sequences, FiniteSets, TLC

(***************************************************************************)
(* Bounds of the model.                                                    *)
(***************************************************************************)
\* largest number of keyword arguments present in one filters dict
MaxKeys == 3
\* numeric filter arguments and record values range over 0..MaxNum
MaxNum == 1
\* longest required_amenities list
MaxAmenities == 2

(***************************************************************************)
(* Python values that occur as filter arguments.  Every value is a record  *)
(* of one shape: t is the type tag, s the string, n the integer, l the     *)
(* list of strings.  Absent marks a key that is not in the dict.           *)
(***************************************************************************)
Absent == [t |-> "absent", s |-> "", n |-> 0, l |-> <<>>]
None == [t |-> "none", s |-> "", n |-> 0, l |-> <<>>]
Str(x) == [t |-> "str", s |-> x, n |-> 0, l |-> <<>>]
Num(x) == [t |-> "int", s |-> "", n |-> x, l |-> <<>>]
List(x) == [t |-> "list", s |-> "", n |-> 0, l |-> x]

\* Python truthiness: bool(v)
Truthy(v) ==
    CASE v.t = "str" -> v.s # ""
      [] v.t = "int" -> v.n # 0
      [] v.t = "list" -> v.l # <<>>
      [] OTHER -> FALSE

\* dict.get(key): None for a missing key
Get(v) == IF v = Absent THEN None ELSE v

\* dict.get(key, default)
GetDefault(v, default) == IF v = Absent THEN default ELSE v

AmenityNames == {"pool", "gym"}
SeqsUpTo(S, n) == UNION {[1..k -> S] : k \in 0..n}

StrArgs(x) == {None, Str(""), Str(x)}
NumArgs == {None} \cup {Num(k) : k \in 0..MaxNum}
AmenityArgs == {None} \cup {List(q) : q \in SeqsUpTo(AmenityNames, MaxAmenities)}
StatusArgs == {None, Str("active"), Str("sold")}

Keys == {"property_type", "city", "state", "neighborhood", "min_bedrooms",
         "min_bathrooms", "min_price", "max_price", "required_amenities", "status"}

\* the values key k may take when the caller passes the keys of K
ArgsOf(k, K, S) == IF k \in K THEN S ELSE {Absent}

\* the filters dicts with the keys of K present
FilterDicts(K) ==
    [property_type : ArgsOf("property_type", K, StrArgs("condo")),
     city : ArgsOf("city", K, StrArgs("Miami")),
     state : ArgsOf("state", K, StrArgs("FL")),
     neighborhood : ArgsOf("neighborhood", K, StrArgs("Downtown")),
     min_bedrooms : ArgsOf("min_bedrooms", K, NumArgs),
     min_bathrooms : ArgsOf("min_bathrooms", K, NumArgs),
     min_price : ArgsOf("min_price", K, NumArgs),
     max_price : ArgsOf("max_price", K, NumArgs),
     required_amenities : ArgsOf("required_amenities", K, AmenityArgs),
     status : ArgsOf("status", K, StatusArgs)]

KeySets == {K \in SUBSET Keys : Cardinality(K) <= MaxKeys}

EmptyDict == CHOOSE d \in FilterDicts({}) : TRUE

(***************************************************************************)
(* Predicate trees of the vector store's metadata query language.          *)
(***************************************************************************)
\* {field: {op: value}}
Leaf(field, op, value) == [kind |-> "leaf", field |-> field, op |-> op, value |-> value]
\* {"$and": children}
AndNode(children) == [kind |-> "and", children |-> children]
\* {}
EmptyFilter == [kind |-> "empty"]

(***************************************************************************)
(* PineconeClient.build_price_filter                                       *)
(***************************************************************************)
build_price_filter_truthy(min_price, max_price) ==
    IF Truthy(min_price) /\ Truthy(max_price)
    THEN AndNode(<<Leaf("price", "$gte", min_price), Leaf("price", "$lte", max_price)>>)
    ELSE IF Truthy(min_price) THEN Leaf("price", "$gte", min_price)
    ELSE IF Truthy(max_price) THEN Leaf("price", "$lte", max_price)
    ELSE EmptyFilter

build_price_filter(min_price, max_price) ==
    IF min_price # None /\ max_price # None
    THEN AndNode(<<Leaf("price", "$gte", min_price), Leaf("price", "$lte", max_price)>>)
    ELSE IF min_price # None THEN Leaf("price", "$gte", min_price)
    ELSE IF max_price # None THEN Leaf("price", "$lte", max_price)
    ELSE EmptyFilter

(***************************************************************************)
(* PineconeClient.build_metadata_filter: the conditions appended to        *)
(* filter_conditions, section by section, in the order of the code.        *)
(***************************************************************************)
\* if key in filters and filters[key]: append {field: {"$eq": filters[key]}}
EqCondition(field, v) ==
    IF v # Absent /\ Truthy(v) THEN <<Leaf(field, "$eq", v)>> ELSE <<>>

\* if key in filters and filters[key] is not None: append {field: {"$gte": filters[key]}}
GteConditionTruthy(field, v) ==
    IF v # Absent /\ Truthy(v) THEN <<Leaf(field, "$gte", v)>> ELSE <<>>

GteCondition(field, v) ==
    IF v # Absent /\ v # None THEN <<Leaf(field, "$gte", v)>> ELSE <<>>

PriceCondition(filters) ==
    LET price_filter == build_price_filter(Get(filters.min_price), Get(filters.max_price))
    IN  IF price_filter # EmptyFilter THEN <<price_filter>> ELSE <<>>

AmenityConditionsUnion(filters) ==
    LET v == filters.required_amenities
    IN  IF v # Absent /\ Truthy(v)
        THEN <<Leaf("amenities", "$in", List(v.l))>>
        ELSE <<>>

AmenityConditions(filters) ==
    LET v == filters.required_amenities
    IN  IF v # Absent /\ Truthy(v)
        THEN [i \in 1..Len(v.l) |-> Leaf("amenities", "$in", List(<<v.l[i]>>))]
        ELSE <<>>

StatusConditionIfSupplied(filters) ==
    IF filters.status # Absent /\ Truthy(filters.status)
    THEN <<Leaf("status", "$eq", filters.status)>>
    ELSE <<>>

StatusCondition(filters) ==
    LET status == GetDefault(filters.status, Str("active"))
    IN  <<Leaf("status", "$eq", status)>>

StatusFirst(filters) ==
    StatusCondition(filters)
        \o EqCondition("property_type", filters.property_type)
        \o EqCondition("city", filters.city)
        \o EqCondition("state", filters.state)
        \o EqCondition("neighborhood", filters.neighborhood)
        \o GteCondition("bedrooms", filters.min_bedrooms)
        \o GteCondition("bathrooms", filters.min_bathrooms)
        \o PriceCondition(filters)
        \o AmenityConditions(filters)

filter_conditions(filters) ==
    EqCondition("property_type", filters.property_type)
        \o EqCondition("city", filters.city)
        \o EqCondition("state", filters.state)
        \o EqCondition("neighborhood", filters.neighborhood)
        \o GteCondition("bedrooms", filters.min_bedrooms)
        \o GteCondition("bathrooms", filters.min_bathrooms)
        \o PriceCondition(filters)
        \o AmenityConditions(filters)
        \o StatusCondition(filters)

CombineAlwaysWrap(conditions) ==
    IF Len(conditions) >= 1 THEN AndNode(conditions) ELSE EmptyFilter

\* the combination at the end of build_metadata_filter
Combine(conditions) ==
    IF Len(conditions) = 1 THEN conditions[1]
    ELSE IF Len(conditions) > 1 THEN AndNode(conditions)
    ELSE EmptyFilter

build_metadata_filter(filters) == Combine(filter_conditions(filters))

(***************************************************************************)
(* PropertySearchTool._run: the filter carried by the search it issues.    *)
(* `if filters:` is false for None and for the empty dict.                 *)
(***************************************************************************)
DictTruthy(filters) == filters # EmptyDict

pinecone_filters(given, filters) ==
    IF given /\ DictTruthy(filters) THEN build_metadata_filter(filters) ELSE EmptyFilter

(***************************************************************************)
(* How the vector store evaluates a predicate tree on a record's metadata. *)
(***************************************************************************)
Records ==
    [city : {"Miami", "Austin"}, price : 0..MaxNum, bedrooms : 0..MaxNum,
     amenities : SUBSET AmenityNames, status : {"active", "sold"}]

\* the metadata value of a record under a field name, as a Python value
FieldValue(rec, field) ==
    CASE field = "city" -> Str(rec.city)
      [] field = "status" -> Str(rec.status)
      [] field = "price" -> Num(rec.price)
      [] field = "bedrooms" -> Num(rec.bedrooms)
      [] OTHER -> None

MatchesLeaf(rec, leaf) ==
    CASE leaf.op = "$eq" -> FieldValue(rec, leaf.field) = leaf.value
      [] leaf.op = "$gte" ->
            LET v == FieldValue(rec, leaf.field)
            IN  v.t = "int" /\ leaf.value.t = "int" /\ v.n >= leaf.value.n
      [] leaf.op = "$lte" ->
            LET v == FieldValue(rec, leaf.field)
            IN  v.t = "int" /\ leaf.value.t = "int" /\ v.n <= leaf.value.n
      [] leaf.op = "$in" ->
            leaf.field = "amenities"
            /\ \E i \in 1..Len(leaf.value.l) : leaf.value.l[i] \in rec.amenities
      [] OTHER -> FALSE

\* trees are at most two levels deep: the price conjunction nests in the top one
MatchesInner(rec, node) ==
    CASE node.kind = "leaf" -> MatchesLeaf(rec, node)
      [] node.kind = "and" ->
            \A i \in 1..Len(node.children) : MatchesLeaf(rec, node.children[i])
      [] OTHER -> TRUE

Matches(rec, node) ==
    CASE node.kind = "leaf" -> MatchesLeaf(rec, node)
      [] node.kind = "and" ->
            \A i \in 1..Len(node.children) : MatchesInner(rec, node.children[i])
      [] OTHER -> TRUE

(***************************************************************************)
(* Strings are sequences of one-character strings.  The em dash of the     *)
(* title pattern is one character, written EmDash.                         *)
(***************************************************************************)
EmDash == "<em-dash>"
Newline == "\n"
Whitespace == {" ", "\t", "\n"}
DigitChars == {"0", "1", "2", "3", "4", "5", "6", "7", "8", "9"}
UpperLetters == {"A", "B", "C", "D", "E", "F", "G", "H", "I", "J", "K", "L", "M", "N", "O", "P", "Q", "R", "S", "T", "U", "V", "W", "X", "Y", "Z"}
LowerLetters == {"a", "b", "c", "d", "e", "f", "g", "h", "i", "j", "k", "l", "m", "n", "o", "p", "q", "r", "s", "t", "u", "v", "w", "x", "y", "z"}

\* \s, \d, \w of the re module
IsSpace(c) == c \in Whitespace
IsDigit(c) == c \in DigitChars
IsWordChar(c) == c \in (UpperLetters \cup LowerLetters \cup DigitChars \cup {"_"})

DigitValue(c) ==
      CASE c = "0" -> 0
        [] c = "1" -> 1
        [] c = "2" -> 2
        [] c = "3" -> 3
        [] c = "4" -> 4
        [] c = "5" -> 5
        [] c = "6" -> 6
        [] c = "7" -> 7
        [] c = "8" -> 8
        [] c = "9" -> 9
        [] OTHER -> 0

LowerChar(c) ==
      CASE c = "A" -> "a"
        [] c = "B" -> "b"
        [] c = "C" -> "c"
        [] c = "D" -> "d"
        [] c = "E" -> "e"
        [] c = "F" -> "f"
        [] c = "G" -> "g"
        [] c = "H" -> "h"
        [] c = "I" -> "i"
        [] c = "J" -> "j"
        [] c = "K" -> "k"
        [] c = "L" -> "l"
        [] c = "M" -> "m"
        [] c = "N" -> "n"
        [] c = "O" -> "o"
        [] c = "P" -> "p"
        [] c = "Q" -> "q"
        [] c = "R" -> "r"
        [] c = "S" -> "s"
        [] c = "T" -> "t"
        [] c = "U" -> "u"
        [] c = "V" -> "v"
        [] c = "W" -> "w"
        [] c = "X" -> "x"
        [] c = "Y" -> "y"
        [] c = "Z" -> "z"
        [] OTHER -> c

\* str.lower()
Lower(s) == [i \in 1..Len(s) |-> LowerChar(s[i])]

\* str.strip()
Strip(s) ==
    LET keep == {i \in 1..Len(s) : ~IsSpace(s[i])}
    IN  IF keep = {} THEN <<>>
        ELSE LET first == CHOOSE i \in keep : \A j \in keep : i <= j
                 last == CHOOSE i \in keep : \A j \in keep : j <= i
             IN  SubSeq(s, first, last)

\* str.split('\n'): the pieces between consecutive newlines
Split(s) ==
    LET breaks == {i \in 1..Len(s) : s[i] = Newline}
        \* the position of the k-th newline; 0 and Len(s) + 1 bracket the text
        BreakAt(k) ==
            IF k = 0 THEN 0
            ELSE IF k > Cardinality(breaks) THEN Len(s) + 1
            ELSE CHOOSE p \in breaks : Cardinality({q \in breaks : q < p}) = k - 1
    IN  [k \in 1..(Cardinality(breaks) + 1) |->
            SubSeq(s, BreakAt(k - 1) + 1, BreakAt(k) - 1)]

\* str.replace(old, ''): every non-overlapping occurrence, left to right
RECURSIVE Remove(_, _)
Remove(s, old) ==
    IF Len(s) < Len(old) THEN s
    ELSE IF SubSeq(s, 1, Len(old)) = old THEN Remove(SubSeq(s, Len(old) + 1, Len(s)), old)
    ELSE <<s[1]>> \o Remove(Tail(s), old)

RECURSIVE DigitsValue(_)
DigitsValue(s) ==
    IF s = <<>> THEN 0 ELSE 10 * DigitsValue(SubSeq(s, 1, Len(s) - 1)) + DigitValue(s[Len(s)])

\* int(s): surrounding whitespace and a sign are accepted; anything else but
\* digits raises ValueError (ok = FALSE)
ParseInt(s) ==
    LET t == Strip(s)
        signed == t # <<>> /\ t[1] \in {"-", "+"}
        body == IF signed THEN Tail(t) ELSE t
    IN  IF body # <<>> /\ \A i \in 1..Len(body) : IsDigit(body[i])
        THEN [ok |-> TRUE,
              value |-> IF signed /\ t[1] = "-" THEN 0 - DigitsValue(body) ELSE DigitsValue(body)]
        ELSE [ok |-> FALSE, value |-> 0]

RECURSIVE Pow10(_)
Pow10(k) == IF k = 0 THEN 1 ELSE 10 * Pow10(k - 1)

\* a float as the fraction num/den, den a power of ten, in lowest such terms
RECURSIVE Reduce(_, _)
Reduce(num, den) ==
    IF den > 1 /\ num % 10 = 0 THEN Reduce(num \div 10, den \div 10)
    ELSE [num |-> num, den |-> den]

\* float(s) for s of the form \d+(\.\d+)?
ParseFloat(s) ==
    LET dots == {i \in 1..Len(s) : s[i] = "."}
        dot == IF dots = {} THEN Len(s) + 1 ELSE CHOOSE i \in dots : TRUE
        whole == SubSeq(s, 1, dot - 1)
        frac == SubSeq(s, dot + 1, Len(s))
    IN  Reduce(DigitsValue(whole \o frac), Pow10(Len(frac)))

(***************************************************************************)
(* re.match: a backtracking matcher over the pattern elements the two      *)
(* patterns use.  lit: one character; ws: \s* (greedy); digits: \d+        *)
(* (greedy); word: \w+ (greedy); lazy: .+? ; optfrac: (?:\.\d+)? ; end: $ ;*)
(* open/close: the parentheses of capture group g.                         *)
(***************************************************************************)
Lit(c) == [k |-> "lit", c |-> c, g |-> 0]
Ws == [k |-> "ws", c |-> "", g |-> 0]
DigitRun == [k |-> "digits", c |-> "", g |-> 0]
WordRun == [k |-> "word", c |-> "", g |-> 0]
Lazy == [k |-> "lazy", c |-> "", g |-> 0]
OptFrac == [k |-> "optfrac", c |-> "", g |-> 0]
End == [k |-> "end", c |-> "", g |-> 0]
Open(g) == [k |-> "open", c |-> "", g |-> g]
Close(g) == [k |-> "close", c |-> "", g |-> g]
Lits(s) == [i \in 1..Len(s) |-> Lit(s[i])]

NoGroups == [g \in 1..5 |-> <<1, 1>>]
NoMatch == [ok |-> FALSE, groups |-> NoGroups]

InClass(k, c) ==
    CASE k = "ws" -> IsSpace(c)
      [] k = "digits" -> IsDigit(c)
      [] k = "word" -> IsWordChar(c)
      [] OTHER -> FALSE

\* the number of consecutive characters of class k from position i on
RECURSIVE RunLength(_, _, _)
RunLength(line, i, k) ==
    IF i <= Len(line) /\ InClass(k, line[i]) THEN 1 + RunLength(line, i + 1, k) ELSE 0

RECURSIVE MatchFrom(_, _, _, _, _)
RECURSIVE TryLongest(_, _, _, _, _, _, _)
RECURSIVE TryShortest(_, _, _, _, _, _)

\* match pattern[j..] at line[i..]; groups hold <<start, end + 1>> of each group
MatchFrom(pattern, line, j, i, groups) ==
    IF j > Len(pattern) THEN [ok |-> TRUE, groups |-> groups]
    ELSE LET e == pattern[j]
         IN  CASE e.k = "lit" ->
                    IF i <= Len(line) /\ line[i] = e.c
                    THEN MatchFrom(pattern, line, j + 1, i + 1, groups)
                    ELSE NoMatch
               [] e.k = "end" ->
                    IF i = Len(line) + 1
                    THEN MatchFrom(pattern, line, j + 1, i, groups)
                    ELSE NoMatch
               [] e.k = "open" ->
                    MatchFrom(pattern, line, j + 1, i, [groups EXCEPT ![e.g] = <<i, i>>])
               [] e.k = "close" ->
                    MatchFrom(pattern, line, j + 1, i, [groups EXCEPT ![e.g][2] = i])
               [] e.k = "ws" ->
                    TryLongest(pattern, line, j, i, groups, RunLength(line, i, "ws"), 0)
               [] e.k \in {"digits", "word"} ->
                    TryLongest(pattern, line, j, i, groups, RunLength(line, i, e.k), 1)
               [] e.k = "lazy" ->
                    TryShortest(pattern, line, j, i, groups, 1)
               [] e.k = "optfrac" ->
                    LET fraction ==
                            IF i <= Len(line) /\ line[i] = "."
                            THEN TryLongest(pattern, line, j, i + 1, groups,
                                            RunLength(line, i + 1, "digits"), 1)
                            ELSE NoMatch
                    IN  IF fraction.ok THEN fraction
                        ELSE MatchFrom(pattern, line, j + 1, i, groups)
               [] OTHER -> NoMatch

\* a greedy repetition: n characters first, then fewer, down to least
TryLongest(pattern, line, j, i, groups, n, least) ==
    IF n < least THEN NoMatch
    ELSE LET r == MatchFrom(pattern, line, j + 1, i + n, groups)
         IN  IF r.ok THEN r
             ELSE TryLongest(pattern, line, j, i, groups, n - 1, least)

\* a lazy repetition: n characters first, then more, up to the end of the line
TryShortest(pattern, line, j, i, groups, n) ==
    IF i + n - 1 > Len(line) THEN NoMatch
    ELSE LET r == MatchFrom(pattern, line, j + 1, i + n, groups)
         IN  IF r.ok THEN r
             ELSE TryShortest(pattern, line, j, i, groups, n + 1)

Group(line, m, g) == SubSeq(line, m.groups[g][1], m.groups[g][2] - 1)

\* r'-\s*(.+?)\s*\((.+?),\s*(.+?),\s*(.+?)\)\s*<em dash>\s*\$(.+?)$'
TitlePattern ==
    <<Lit("-"), Ws, Open(1), Lazy, Close(1), Ws, Lit("("), Open(2), Lazy, Close(2),
      Lit(","), Ws, Open(3), Lazy, Close(3), Lit(","), Ws, Open(4), Lazy, Close(4),
      Lit(")"), Ws, Lit(EmDash), Ws, Lit("$"), Open(5), Lazy, Close(5), End>>

\* r'(\d+)\s*bed\s*\|\s*(\d+(?:\.\d+)?)\s*bath\s*\|\s*.+?\|\s*(\w+)\s*\|'
DetailsPattern ==
    <<Open(1), DigitRun, Close(1), Ws>> \o Lits(<<"b", "e", "d">>)
        \o <<Ws, Lit("|"), Ws, Open(2), DigitRun, OptFrac, Close(2), Ws>>
        \o Lits(<<"b", "a", "t", "h">>)
        \o <<Ws, Lit("|"), Ws, Lazy, Lit("|"), Ws, Open(3), WordRun, Close(3), Ws, Lit("|")>>

title_match(line) == MatchFrom(TitlePattern, line, 1, 1, NoGroups)
details_match(line) == MatchFrom(DetailsPattern, line, 1, 1, NoGroups)

(***************************************************************************)
(* The fixture catalog (create_sample_properties), scaled down to the      *)
(* fields the parser and the matcher read.                                 *)
(***************************************************************************)
sample_properties ==
    <<[property_id |-> "PROP_001", title |-> <<"S", "u", "n", " ", "C", "o", "n", "d", "o">>, city |-> <<"M", "i", "a", "m", "i">>,
       price |-> 450000, description |-> <<"O", "c", "e", "a", "n", " ", "v", "i", "e", "w", "s", " ", "a", "n", "d", " ", "a", " ", "p", "o", "o", "l">>],
      [property_id |-> "PROP_002", title |-> <<"L", "o", "f", "t">>, city |-> <<"A", "u", "s", "t", "i", "n">>,
       price |-> 1200000, description |-> <<"M", "o", "d", "e", "r", "n", " ", "l", "o", "f", "t", " ", "d", "o", "w", "n", "t", "o", "w", "n">>]>>

\* the scan of _find_matching_property_id that returns the last match
RECURSIVE FindLast(_, _, _)
FindLast(catalog, parsed_property, i) ==
    IF i > Len(catalog) THEN [found |-> FALSE, id |-> ""]
    ELSE LET prop == catalog[i]
             later == FindLast(catalog, parsed_property, i + 1)
         IN  IF later.found THEN later
             ELSE IF /\ Lower(prop.title) = Lower(parsed_property.title)
                     /\ Lower(prop.city) = Lower(parsed_property.city)
                     /\ prop.price = parsed_property.price
             THEN [found |-> TRUE, id |-> prop.property_id]
             ELSE later

\* PerformancePipeline._find_matching_property_id: the first entry that matches;
\* catalog is self.sample_properties, found = FALSE is None
RECURSIVE FindFrom(_, _, _)
FindFrom(catalog, parsed_property, i) ==
    IF i > Len(catalog) THEN [found |-> FALSE, id |-> ""]
    ELSE LET prop == catalog[i]
         IN  IF /\ Lower(prop.title) = Lower(parsed_property.title)
                /\ Lower(prop.city) = Lower(parsed_property.city)
                /\ prop.price = parsed_property.price
             THEN [found |-> TRUE, id |-> prop.property_id]
             ELSE FindFrom(catalog, parsed_property, i + 1)

find_matching_property_id(catalog, parsed_property) == FindFrom(catalog, parsed_property, 1)

(***************************************************************************)
(* PerformancePipeline._parse_agent_response.                              *)
(* A record's details are <<>> until a details line sets the three keys.   *)
(***************************************************************************)
AmountDigitsKeepFraction(price_str) == Remove(price_str, <<",">>)

\* price_str.replace(',', '').replace('.0', '')
AmountDigits(price_str) == Remove(Remove(price_str, <<",">>), <<".", "0">>)

\* a record opened with its property_id already looked up in the catalog
NewPropertyResolved(line, m, price) ==
    LET opened == [title |-> Strip(Group(line, m, 1)),
                   city |-> Strip(Group(line, m, 3)),
                   state |-> Strip(Group(line, m, 4)),
                   neighborhood |-> Strip(Group(line, m, 2)),
                   price |-> price,
                   property_id |-> "UNKNOWN",
                   details |-> <<>>]
        matched_id == find_matching_property_id(sample_properties, opened)
    IN  IF matched_id.found THEN [opened EXCEPT !.property_id = matched_id.id]
        ELSE opened

\* the record a title line opens
NewProperty(line, m, price) ==
    [title |-> Strip(Group(line, m, 1)),
     city |-> Strip(Group(line, m, 3)),
     state |-> Strip(Group(line, m, 4)),
     neighborhood |-> Strip(Group(line, m, 2)),
     price |-> price,
     property_id |-> "UNKNOWN",
     details |-> <<>>]

\* current_property.update(...) and the attempt to resolve property_id
WithDetails(current, line, m) ==
    LET updated ==
            [current EXCEPT !.details =
                <<[bedrooms |-> DigitsValue(Group(line, m, 1)),
                   bathrooms |-> ParseFloat(Group(line, m, 2)),
                   property_type |-> Lower(Group(line, m, 3))]>>]
        matched_id == find_matching_property_id(sample_properties, updated)
    IN  IF matched_id.found THEN [updated EXCEPT !.property_id = matched_id.id]
        ELSE updated

\* a loop body whose details branch updates the appended records as well
ParseLineDetailsToAll(raw, properties, current_property) ==
    LET line == Strip(raw)
        tm == title_match(line)
        dm == details_match(line)
    IN  IF tm.ok
        THEN LET price == ParseInt(AmountDigits(Group(line, tm, 5)))
             IN  IF price.ok
                 THEN [raised |-> FALSE, properties |-> properties \o current_property,
                       current_property |-> <<NewProperty(line, tm, price.value)>>]
                 ELSE [raised |-> TRUE, properties |-> properties \o current_property,
                       current_property |-> current_property]
        ELSE IF dm.ok /\ current_property # <<>>
        THEN [raised |-> FALSE,
              properties |-> [k \in 1..Len(properties) |->
                                 WithDetails(properties[k], line, dm)],
              current_property |-> <<WithDetails(current_property[1], line, dm)>>]
        ELSE [raised |-> FALSE, properties |-> properties,
              current_property |-> current_property]

\* a loop body whose title branch opens the new record without appending the
\* record in progress
ParseLineNoFlush(raw, properties, current_property) ==
    LET line == Strip(raw)
        tm == title_match(line)
        dm == details_match(line)
    IN  IF tm.ok
        THEN LET price == ParseInt(AmountDigits(Group(line, tm, 5)))
             IN  IF price.ok
                 THEN [raised |-> FALSE, properties |-> properties,
                       current_property |-> <<NewProperty(line, tm, price.value)>>]
                 ELSE [raised |-> TRUE, properties |-> properties,
                       current_property |-> current_property]
        ELSE IF dm.ok /\ current_property # <<>>
        THEN [raised |-> FALSE, properties |-> properties,
              current_property |-> <<WithDetails(current_property[1], line, dm)>>]
        ELSE [raised |-> FALSE, properties |-> properties,
              current_property |-> current_property]

\* one iteration of the loop over the lines; current_property is <<>> for the
\* empty dict.  raised: int() raised, after the record in progress was appended
ParseLine(raw, properties, current_property) ==
    LET line == Strip(raw)
        tm == title_match(line)
        dm == details_match(line)
    IN  IF tm.ok
        THEN LET price == ParseInt(AmountDigits(Group(line, tm, 5)))
             IN  IF price.ok
                 THEN [raised |-> FALSE, properties |-> properties \o current_property,
                       current_property |-> <<NewProperty(line, tm, price.value)>>]
                 ELSE [raised |-> TRUE, properties |-> properties \o current_property,
                       current_property |-> current_property]
        ELSE IF dm.ok /\ current_property # <<>>
        THEN [raised |-> FALSE, properties |-> properties,
              current_property |-> <<WithDetails(current_property[1], line, dm)>>]
        ELSE [raised |-> FALSE, properties |-> properties,
              current_property |-> current_property]

\* the loop over the lines and the flush after it
RECURSIVE ParseLines(_, _, _, _)
ParseLines(lines, i, properties, current_property) ==
    IF i > Len(lines)
    THEN [raised |-> FALSE, properties |-> properties \o current_property]
    ELSE LET step == ParseLine(lines[i], properties, current_property)
         IN  IF step.raised THEN [raised |-> TRUE, properties |-> step.properties]
             ELSE ParseLines(lines, i + 1, step.properties, step.current_property)

ExceptKeepsRecords(body) == [raised |-> FALSE, value |-> body.properties]

ExceptReraise(body) ==
    IF body.raised THEN [raised |-> TRUE, value |-> <<>>]
    ELSE [raised |-> FALSE, value |-> body.properties]

\* try: ... return properties / except Exception: return []
TryExcept(body) ==
    IF body.raised THEN [raised |-> FALSE, value |-> <<>>]
    ELSE [raised |-> FALSE, value |-> body.properties]

parse_agent_response(response_text) ==
    TryExcept(ParseLines(Split(response_text), 1, <<>>, <<>>))

(***************************************************************************)
(* The agent's answers the parser is run on: a sequence of lines, each a   *)
(* title line, a details line or other text, written out as characters.    *)
(***************************************************************************)
DigitOf(n) ==
      CASE n = 0 -> "0"
        [] n = 1 -> "1"
        [] n = 2 -> "2"
        [] n = 3 -> "3"
        [] n = 4 -> "4"
        [] n = 5 -> "5"
        [] n = 6 -> "6"
        [] n = 7 -> "7"
        [] n = 8 -> "8"
        [] n = 9 -> "9"

RECURSIVE FormatInt(_)
FormatInt(n) ==
    IF n < 10 THEN <<DigitOf(n)>> ELSE Append(FormatInt(n \div 10), DigitOf(n % 10))

\* f"{n:,}"
RECURSIVE FormatThousands(_)
FormatThousands(n) ==
    IF n < 1000 THEN FormatInt(n)
    ELSE LET low == n % 1000
         IN  FormatThousands(n \div 1000) \o <<",">>
                 \o <<DigitOf(low \div 100), DigitOf((low \div 10) % 10), DigitOf(low % 10)>>

\* an amount: an integer written with thousands separators ("int"), the same
\* followed by ".0" ("float"), or other text ("raw")
IntAmount(n) == [style |-> "int", value |-> n, raw |-> <<>>]
FloatAmount(n) == [style |-> "float", value |-> n, raw |-> <<>>]
RawAmount(s) == [style |-> "raw", value |-> 0, raw |-> s]

FormatAmount(a) ==
    CASE a.style = "int" -> FormatThousands(a.value)
      [] a.style = "float" -> FormatThousands(a.value) \o <<".", "0">>
      [] OTHER -> a.raw

\* bathrooms in tenths: 25 is written "2.5"; 20 is written "2" or "2.0"
FormatBaths(tenths, decimal) ==
    IF decimal THEN FormatInt(tenths \div 10) \o <<".", DigitOf(tenths % 10)>>
    ELSE FormatInt(tenths \div 10)

Blank == [shape |-> "raw", pad |-> 0, title |-> <<>>, neighborhood |-> <<>>, city |-> <<>>,
          state |-> <<>>, amount |-> RawAmount(<<>>), bedrooms |-> 0, tenths |-> 0,
          decimal |-> FALSE, text |-> <<>>, ptype |-> <<>>, closed |-> FALSE, rest |-> <<>>,
          raw |-> <<>>]

TitleLine(pad, title, neighborhood, city, state, amount) ==
    [Blank EXCEPT !.shape = "title", !.pad = pad, !.title = title,
                  !.neighborhood = neighborhood, !.city = city, !.state = state,
                  !.amount = amount]

DetailsLine(pad, bedrooms, tenths, decimal, text, ptype, closed, rest) ==
    [Blank EXCEPT !.shape = "details", !.pad = pad, !.bedrooms = bedrooms,
                  !.tenths = tenths, !.decimal = decimal, !.text = text, !.ptype = ptype,
                  !.closed = closed, !.rest = rest]

RawLine(s) == [Blank EXCEPT !.raw = s]

Spaces(n) == [i \in 1..n |-> " "]

\* the characters of one line; pad is the extra whitespace around its parts
Render(d) ==
    CASE d.shape = "title" ->
            Spaces(d.pad) \o <<"-">> \o Spaces(1 + d.pad) \o d.title \o Spaces(1 + d.pad)
                \o <<"(">> \o Spaces(d.pad) \o d.neighborhood \o Spaces(d.pad)
                \o <<",">> \o Spaces(1 + d.pad) \o d.city \o Spaces(d.pad)
                \o <<",">> \o Spaces(1 + d.pad) \o d.state \o Spaces(d.pad)
                \o <<")">> \o Spaces(1 + d.pad) \o <<EmDash>> \o Spaces(1 + d.pad)
                \o <<"$">> \o FormatAmount(d.amount) \o Spaces(d.pad)
      [] d.shape = "details" ->
            FormatInt(d.bedrooms) \o Spaces(d.pad) \o <<"b", "e", "d">> \o Spaces(d.pad)
                \o <<"|">> \o Spaces(d.pad) \o FormatBaths(d.tenths, d.decimal)
                \o Spaces(d.pad) \o <<"b", "a", "t", "h">> \o Spaces(d.pad)
                \o <<"|">> \o Spaces(d.pad) \o d.text \o Spaces(d.pad)
                \o <<"|">> \o Spaces(d.pad) \o d.ptype
                \o (IF d.closed THEN Spaces(d.pad) \o <<"|">> \o d.rest ELSE <<>>)
      [] OTHER -> d.raw

\* '\n'.join(lines)
RECURSIVE Join(_)
Join(ds) ==
    IF ds = <<>> THEN <<>>
    ELSE IF Len(ds) = 1 THEN Render(ds[1])
    ELSE Render(ds[1]) \o <<Newline>> \o Join(Tail(ds))

TitleLines ==
    {TitleLine(0, <<"S", "u", "n", " ", "C", "o", "n", "d", "o">>, <<"D", "o", "w", "n", "t", "o", "w", "n">>, <<"M", "i", "a", "m", "i">>, <<"F", "L">>, IntAmount(450000)),
     TitleLine(1, <<"s", "u", "n", " ", "c", "o", "n", "d", "o">>, <<"D", "o", "w", "n", "t", "o", "w", "n">>, <<"M", "I", "A", "M", "I">>, <<"F", "L">>, FloatAmount(450000)),
     TitleLine(0, <<"L", "o", "f", "t">>, <<"S", "o", "h", "o">>, <<"A", "u", "s", "t", "i", "n">>, <<"T", "X">>, IntAmount(1200000)),
     TitleLine(0, <<"L", "o", "f", "t">>, <<"S", "o", "h", "o">>, <<"A", "u", "s", "t", "i", "n">>, <<"T", "X">>, RawAmount(<<"1", ".", "2", "M">>)),
     TitleLine(0, <<"L", "o", "f", "t">>, <<"S", "o", "h", "o">>, <<"A", "u", "s", "t", "i", "n">>, <<"T", "X">>, RawAmount(<<"9", "5", "0", ",", "0", "0", "0", ".", "0", "0">>))}

DetailsLines ==
    {DetailsLine(1, 2, 20, FALSE, <<"9", "0", "0", " ", "s", "q", "f", "t">>, <<"c", "o", "n", "d", "o">>, TRUE, <<" ", "2", "0", "2", "0", " ", "|", " ", "$", "4", "5", "0", "/", "s", "q", "f", "t">>),
     DetailsLine(1, 12, 25, TRUE, <<"9", "0", "0", " ", "s", "q", "f", "t">>, <<"C", "o", "n", "d", "o">>, TRUE, <<>>),
     DetailsLine(0, 3, 10, TRUE, <<"n", "/", "a">>, <<"l", "o", "f", "t">>, TRUE, <<>>),
     DetailsLine(1, 2, 20, FALSE, <<"9", "0", "0", " ", "s", "q", "f", "t">>, <<"c", "o", "n", "d", "o">>, FALSE, <<>>)}

OtherLines ==
    {RawLine(<<>>), RawLine(<<"I", " ", "f", "o", "u", "n", "d", " ", "2", " ", "h", "o", "m", "e", "s", ":">>), RawLine(<<"-", " ", "n", "o", "t", "h", "i", "n", "g", " ", "e", "l", "s", "e">>)}

LinePool == TitleLines \cup DetailsLines \cup OtherLines

(***************************************************************************)
(* PropertyMatchEvaluator: the judge's reply and the evaluation result.    *)
(* A float is the fraction num/den with den a power of ten.  A dict is a   *)
(* record together with the set of keys it holds.                          *)
(***************************************************************************)
AccuracyTag == <<"A", "C", "C", "U", "R", "A", "C", "Y", ":">>
IsCorrectTag == <<"I", "S", "_", "C", "O", "R", "R", "E", "C", "T", ":">>
ReasoningTag == <<"R", "E", "A", "S", "O", "N", "I", "N", "G", ":">>
TrueText == <<"t", "r", "u", "e">>
ParseErrorPrefix == <<"P", "a", "r", "s", "e", " ", "e", "r", "r", "o", "r", ":", " ">>

\* str(e) of the exception named kind
ErrorText(kind) == <<kind>>

Zero == [num |-> 0, den |-> 1]

\* str.startswith(prefix)
startswith(s, prefix) ==
    Len(s) >= Len(prefix) /\ SubSeq(s, 1, Len(prefix)) = prefix

\* line.split(':', 1)[1] for a line that holds a colon
AfterColon(line) ==
    LET colons == {i \in 1..Len(line) : line[i] = ":"}
        first == CHOOSE i \in colons : \A j \in colons : i <= j
    IN  SubSeq(line, first + 1, Len(line))

\* float(s) for decimal text: surrounding whitespace, a sign, digits with at
\* most one point and at least one digit; other text raises ValueError
\* (ok = FALSE).  Exponents, "inf", "nan" and underscores are not modelled.
float_of(s) ==
    LET t == Strip(s)
        signed == t # <<>> /\ t[1] \in {"-", "+"}
        body == IF signed THEN Tail(t) ELSE t
        dots == {i \in 1..Len(body) : body[i] = "."}
        digits == {i \in 1..Len(body) : IsDigit(body[i])}
        dot == IF dots = {} THEN Len(body) + 1 ELSE CHOOSE i \in dots : TRUE
        magnitude == Reduce(DigitsValue(SubSeq(body, 1, dot - 1) \o SubSeq(body, dot + 1, Len(body))),
                            Pow10(Len(body) - Cardinality(dots) - (dot - 1)))
    IN  IF /\ Cardinality(dots) <= 1
           /\ digits # {}
           /\ digits \cup dots = 1..Len(body)
        THEN [ok |-> TRUE,
              value |-> IF signed /\ t[1] = "-"
                        THEN [num |-> 0 - magnitude.num, den |-> magnitude.den]
                        ELSE magnitude]
        ELSE [ok |-> FALSE, value |-> Zero]

\* the message content of the judge's reply: text, or None
Content(text) == [none |-> FALSE, text |-> text]
NoContent == [none |-> TRUE, text |-> <<>>]

\* accuracy = 0.0, is_correct = False, reasoning = ""
DefaultFields == [accuracy |-> Zero, is_correct |-> FALSE, reasoning |-> <<>>]

\* the loop of _parse_evaluation over the lines; raised: float() raised
RECURSIVE ScanEvaluation(_, _, _)
ScanEvaluation(lines, i, fields) ==
    IF i > Len(lines) THEN [raised |-> FALSE, fields |-> fields, error |-> ""]
    ELSE LET line == Strip(lines[i])
         IN  IF startswith(line, AccuracyTag)
             THEN LET accuracy == float_of(Strip(AfterColon(line)))
                  IN  IF accuracy.ok
                      THEN ScanEvaluation(lines, i + 1, [fields EXCEPT !.accuracy = accuracy.value])
                      ELSE [raised |-> TRUE, fields |-> fields, error |-> "ValueError"]
             ELSE IF startswith(line, IsCorrectTag)
             THEN ScanEvaluation(lines, i + 1,
                      [fields EXCEPT !.is_correct = (Lower(Strip(AfterColon(line))) = TrueText)])
             ELSE IF startswith(line, ReasoningTag)
             THEN ScanEvaluation(lines, i + 1,
                      [fields EXCEPT !.reasoning = Strip(AfterColon(line))])
             ELSE ScanEvaluation(lines, i + 1, fields)

\* the body of the try of _parse_evaluation; None has no strip()
ParseEvaluationBody(evaluation_text) ==
    IF evaluation_text.none
    THEN [raised |-> TRUE, fields |-> DefaultFields, error |-> "AttributeError"]
    ELSE ScanEvaluation(Split(Strip(evaluation_text.text)), 1, DefaultFields)

\* an except clause that returns the fields read before the failure
ParseEvaluationKeepsFields(body) == body.fields

\* return {...} / except Exception as e: return {0.0, False, f"Parse error: {str(e)}"}
ParseEvaluationExcept(body) ==
    IF body.raised
    THEN [accuracy |-> Zero, is_correct |-> FALSE,
          reasoning |-> ParseErrorPrefix \o ErrorText(body.error)]
    ELSE body.fields

\* PropertyMatchEvaluator._parse_evaluation
parse_evaluation(evaluation_text) == ParseEvaluationExcept(ParseEvaluationBody(evaluation_text))

(***************************************************************************)
(* PropertyMatchEvaluator.evaluate_search_results.  The judge model either *)
(* raises, answers without choices, or answers with a message content.     *)
(***************************************************************************)
JudgeRaises == [kind |-> "raises", content |-> NoContent]
JudgeNoChoices == [kind |-> "no_choices", content |-> NoContent]
JudgeReplies(content) == [kind |-> "reply", content |-> content]

\* a result dict: keys is the set of keys it holds, the other fields their
\* values (defaults under the keys it lacks)
\* the judge model's call never returns
JudgeHangs == [kind |-> "hangs", content |-> NoContent]

NoDict ==
    [keys |-> {}, accuracy |-> Zero, is_correct |-> FALSE, reasoning |-> <<>>,
     error |-> <<>>, returned_property_ids |-> <<>>, latency_ms |-> Zero,
     configuration |-> ""]

\* the loop over agent_results: every result is a dict with a property_id
ReturnedPropertyIds(agent_results) ==
    [i \in 1..Len(agent_results) |-> agent_results[i].property_id]

\* the body of the try of evaluate_search_results
EvaluateBody(agent_results, judge) ==
    IF judge.kind = "raises" THEN [raised |-> TRUE, error |-> "APIError", value |-> NoDict]
    ELSE IF judge.kind = "no_choices" THEN [raised |-> TRUE, error |-> "IndexError", value |-> NoDict]
    ELSE LET evaluation_result == parse_evaluation(judge.content)
         IN  [raised |-> FALSE, error |-> "",
              value |-> [NoDict EXCEPT
                  !.keys = {"accuracy", "is_correct", "reasoning", "query",
                            "returned_property_ids", "expected_property_ids",
                            "evaluation_text"},
                  !.accuracy = evaluation_result.accuracy,
                  !.is_correct = evaluation_result.is_correct,
                  !.reasoning = evaluation_result.reasoning,
                  !.returned_property_ids = ReturnedPropertyIds(agent_results)]]

\* an except clause that lets the exception through
EvaluateReraise(body) == [raised |-> body.raised, value |-> body.value]

\* except Exception as e: return {"accuracy": 0.0, "is_correct": False, "error": str(e)}
EvaluateExcept(body) ==
    IF body.raised
    THEN [raised |-> FALSE,
          value |-> [NoDict EXCEPT !.keys = {"accuracy", "is_correct", "error"},
                                   !.error = ErrorText(body.error)]]
    ELSE [raised |-> FALSE, value |-> body.value]

evaluate_search_results(agent_results, judge) ==
    EvaluateExcept(EvaluateBody(agent_results, judge))

(***************************************************************************)
(* MetricsCalculator.  Floats are exact fractions num/den here: sums and   *)
(* means are the rational ones, in lowest terms.                           *)
(***************************************************************************)
RECURSIVE GCD(_, _)
GCD(a, b) == IF b = 0 THEN a ELSE GCD(b, a % b)

\* the fraction num/den (den > 0) in lowest terms
Norm(num, den) ==
    LET g == GCD(IF num < 0 THEN 0 - num ELSE num, den)
    IN  [num |-> num \div g, den |-> den \div g]

Plus(a, b) == Norm(a.num * b.den + b.num * a.den, a.den * b.den)

\* a division by zero: the ZeroDivisionError in place of the quotient
ZeroDivisionError == [num |-> 0, den |-> 0]

\* a / n
Over(a, n) == IF n = 0 THEN ZeroDivisionError ELSE Norm(a.num, a.den * n)

\* sum(...) over a list of floats
RECURSIVE SumOf(_)
SumOf(values) ==
    IF values = <<>> THEN Zero ELSE Plus(values[1], SumOf(Tail(values)))

\* eval_result.get(key, default) for the three keys the calculator reads
GetAccuracy(eval_result) ==
    IF "accuracy" \in eval_result.keys THEN eval_result.accuracy ELSE Zero
GetIsCorrect(eval_result) ==
    IF "is_correct" \in eval_result.keys THEN eval_result.is_correct ELSE FALSE
GetLatency(eval_result) ==
    IF "latency_ms" \in eval_result.keys THEN eval_result.latency_ms ELSE Zero

\* the sum of the accuracies, not divided by their number
calculate_accuracy_total(evaluations) ==
    SumOf([i \in 1..Len(evaluations) |-> GetAccuracy(evaluations[i])])

\* MetricsCalculator.calculate_accuracy
calculate_accuracy(evaluations) ==
    IF evaluations = <<>> THEN Zero
    ELSE Over(SumOf([i \in 1..Len(evaluations) |-> GetAccuracy(evaluations[i])]),
              Len(evaluations))

\* MetricsCalculator.calculate_correctness_rate
calculate_correctness_rate(evaluations) ==
    IF evaluations = <<>> THEN Zero
    ELSE Norm(Cardinality({i \in 1..Len(evaluations) : GetIsCorrect(evaluations[i])}),
              Len(evaluations))

\* the summary of one configuration computed without the test for an empty list
SummariseUnguarded(evaluations) ==
    [accuracy |-> calculate_accuracy(evaluations),
     correctness_rate |-> calculate_correctness_rate(evaluations),
     avg_latency_ms |->
         Over(SumOf([i \in 1..Len(evaluations) |-> GetLatency(evaluations[i])]),
              Len(evaluations)),
     total_queries |-> Len(evaluations)]

\* the summary of one configuration
Summarise(evaluations) ==
    IF evaluations # <<>>
    THEN [accuracy |-> calculate_accuracy(evaluations),
          correctness_rate |-> calculate_correctness_rate(evaluations),
          avg_latency_ms |->
              Over(SumOf([i \in 1..Len(evaluations) |-> GetLatency(evaluations[i])]),
                   Len(evaluations)),
          total_queries |-> Len(evaluations)]
    ELSE [accuracy |-> Zero, correctness_rate |-> Zero, avg_latency_ms |-> Zero,
          total_queries |-> 0]

\* a dict without keys
NoResults == [config_name \in {} |-> <<>>]

\* MetricsCalculator.compile_results: a dict is a function on its keys;
\* raised: a division raised ZeroDivisionError and no summary is returned
compile_results(configuration_results) ==
    LET summary == [config_name \in DOMAIN configuration_results |->
                        Summarise(configuration_results[config_name])]
    IN  IF \E config_name \in DOMAIN summary :
               summary[config_name].avg_latency_ms = ZeroDivisionError
        THEN [raised |-> TRUE, summary |-> NoResults]
        ELSE [raised |-> FALSE, summary |-> summary]

(***************************************************************************)
(* The evaluation pipeline's fixed configurations.                         *)
(***************************************************************************)
TestConfiguration(name, use_vectors, use_searchable_content, use_amenities_filter) ==
    [name |-> name, use_vectors |-> use_vectors,
     use_searchable_content |-> use_searchable_content,
     use_amenities_filter |-> use_amenities_filter]

TEST_CONFIGURATIONS ==
    <<TestConfiguration("NoVectors_NoSearchable_NoAmenities", FALSE, FALSE, FALSE),
      TestConfiguration("NoVectors_NoSearchable_WithAmenities", FALSE, FALSE, TRUE),
      TestConfiguration("NoVectors_WithSearchable_NoAmenities", FALSE, TRUE, FALSE),
      TestConfiguration("NoVectors_WithSearchable_WithAmenities", FALSE, TRUE, TRUE),
      TestConfiguration("WithVectors_NoSearchable_NoAmenities", TRUE, FALSE, FALSE),
      TestConfiguration("WithVectors_NoSearchable_WithAmenities", TRUE, FALSE, TRUE),
      TestConfiguration("WithVectors_WithSearchable_NoAmenities", TRUE, TRUE, FALSE),
      TestConfiguration("WithVectors_WithSearchable_WithAmenities", TRUE, TRUE, TRUE)>>

ConfigurationNames == {TEST_CONFIGURATIONS[i].name : i \in 1..Len(TEST_CONFIGURATIONS)}

(***************************************************************************)
(* The evaluation pipeline: test cases, search functions, one cell.        *)
(***************************************************************************)
TestCase(query, expected_properties) ==
    [query |-> query, expected_properties |-> expected_properties]

\* the ten test cases, their queries cut down to the leading words
TEST_QUERIES ==
    <<TestCase(<<"I", " ", "w", "a", "n", "t", " ", "a", " ", "l", "u", "x", "u", "r", "y", " ", "c", "o", "n", "d", "o">>, <<"PROP_001">>),
      TestCase(<<"F", "a", "m", "i", "l", "y", " ", "h", "o", "u", "s", "e", " ", "u", "n", "d", "e", "r", " ", "5", "0", "0", "k">>, <<"PROP_002", "PROP_010">>),
      TestCase(<<"S", "t", "u", "d", "i", "o", " ", "a", "p", "a", "r", "t", "m", "e", "n", "t">>, <<"PROP_003">>),
      TestCase(<<"T", "o", "w", "n", "h", "o", "u", "s", "e", " ", "w", "i", "t", "h", " ", "f", "i", "r", "e", "p", "l", "a", "c", "e">>, <<"PROP_004">>),
      TestCase(<<"P", "e", "t", " ", "f", "r", "i", "e", "n", "d", "l", "y", " ", "a", "p", "a", "r", "t", "m", "e", "n", "t">>, <<"PROP_005">>),
      TestCase(<<"B", "e", "a", "c", "h", "f", "r", "o", "n", "t", " ", "h", "o", "u", "s", "e">>, <<"PROP_006">>),
      TestCase(<<"H", "i", "g", "h", " ", "r", "i", "s", "e", " ", "c", "o", "n", "d", "o">>, <<"PROP_007">>),
      TestCase(<<"H", "i", "s", "t", "o", "r", "i", "c", " ", "h", "o", "u", "s", "e">>, <<"PROP_008">>),
      TestCase(<<"M", "o", "d", "e", "r", "n", " ", "l", "o", "f", "t">>, <<"PROP_009">>),
      TestCase(<<"P", "r", "o", "p", "e", "r", "t", "i", "e", "s", " ", "w", "i", "t", "h", " ", "p", "o", "o", "l", "s">>, <<"PROP_001", "PROP_006", "PROP_010">>)>>

\* str.split(): the maximal runs of characters that are not whitespace
Words(s) ==
    {SubSeq(s, a, b) : <<a, b>> \in
        {p \in (1..Len(s)) \X (1..Len(s)) :
            /\ p[1] <= p[2]
            /\ \A i \in p[1]..p[2] : ~IsSpace(s[i])
            /\ (p[1] = 1 \/ IsSpace(s[p[1] - 1]))
            /\ (p[2] = Len(s) \/ IsSpace(s[p[2] + 1]))}}

\* word in text
Contains(text, word) ==
    \E i \in 1..(Len(text) - Len(word) + 1) : SubSeq(text, i, i + Len(word) - 1) = word

\* a scan that goes through the whole catalog
metadata_only_search_unlimited(properties, query_text) ==
    LET query_words == Words(Lower(query_text))
        title_desc(prop) == Lower(prop.title \o <<" ">> \o prop.description)
        hits == {i \in 1..Len(properties) :
                    \E word \in query_words : Contains(title_desc(properties[i]), word)}
        Hit(k) == CHOOSE i \in hits : Cardinality({j \in hits : j < i}) = k - 1
    IN  [k \in 1..Cardinality(hits) |-> [property_id |-> properties[Hit(k)].property_id]]

\* PerformancePipeline._metadata_only_search: the entries (of the first ten)
\* whose title or description holds a word of the query, in catalog order
metadata_only_search(properties, query_text) ==
    LET query_words == Words(Lower(query_text))
        first_ten == SubSeq(properties, 1, IF Len(properties) < 10 THEN Len(properties) ELSE 10)
        title_desc(prop) == Lower(prop.title \o <<" ">> \o prop.description)
        hits == {i \in 1..Len(first_ten) :
                    \E word \in query_words : Contains(title_desc(first_ten[i]), word)}
        Hit(k) == CHOOSE i \in hits : Cardinality({j \in hits : j < i}) = k - 1
    IN  [k \in 1..Cardinality(hits) |-> [property_id |-> first_ten[Hit(k)].property_id]]

\* what the agent behind a vector search does: it answers with text, its
\* executor raises (search_properties returns the error text), or the import
\* of the agent module raises
AgentAnswers(text) == [kind |-> "answer", text |-> text]
AgentRaises == [kind |-> "raises", text |-> <<>>]
AgentImportFails == [kind |-> "import_error", text |-> <<>>]

\* the agent's call never returns
AgentHangs == [kind |-> "hangs", text |-> <<>>]

\* f"I encountered an error while searching for properties: {str(e)}"
AgentErrorText == <<"I", " ", "e", "n", "c", "o", "u", "n", "t", "e", "r", "e", "d", " ", "a", "n", " ", "e", "r", "r", "o", "r", " ", "w", "h", "i", "l", "e", " ", "s", "e", "a", "r", "c", "h", "i", "n", "g", " ", "f", "o", "r", " ", "p", "r", "o", "p", "e", "r", "t", "i", "e", "s", ":", " ">> \o ErrorText("APIError")

\* RealEstateAgent.search_properties
search_properties(agent) ==
    IF agent.kind = "raises" THEN AgentErrorText ELSE agent.text

\* a choice of search function that lets use_searchable_content decide between
\* the scan and the agent
create_search_function_by_content(config) ==
    IF ~config.use_vectors /\ ~config.use_searchable_content THEN "_metadata_only_search"
    ELSE IF config.use_searchable_content THEN "_vector_search_with_searchable_content"
    ELSE "_vector_search_description_only"

\* _create_search_function
create_search_function(config) ==
    IF ~config.use_vectors THEN "_metadata_only_search"
    ELSE IF config.use_searchable_content THEN "_vector_search_with_searchable_content"
    ELSE "_vector_search_description_only"

\* evaluation.update({"latency_ms": latency_ms, "configuration": config.name})
WithMetrics(evaluation, latency_ms, name) ==
    [evaluation EXCEPT !.keys = @ \cup {"latency_ms", "configuration"},
                       !.latency_ms = latency_ms,
                       !.configuration = name]

\* an except clause of _test_configuration that records nothing
FailedCellSkipped(error, name) == <<>>

\* the record the except clause of _test_configuration appends
FailedCell(error, name) ==
    <<[NoDict EXCEPT !.keys = {"accuracy", "is_correct", "latency_ms", "error", "configuration"},
                     !.error = ErrorText(error),
                     !.configuration = name]>>

(***************************************************************************)
(* State.                                                                  *)
(***************************************************************************)
VARIABLES
    filters,        \* the keyword arguments of the call
    filtersGiven,   \* FALSE: _run is called with filters=None
    op,             \* the operation that has run, "none" before
    emitted,        \* filter_conditions as it stands before the combination
    result,         \* the value the operation returned
    issued,         \* the filter of the search _run issued
    response,       \* the lines of the agent's answer handed to the parser
    parsed,         \* what _parse_agent_response did with it
    scan,           \* the parser's loop: next line, properties, current_property
    sampleProperties,   \* self.sample_properties
    partial,        \* the partial record handed to the matcher
    matched,        \* what _find_matching_property_id returned
    reply,          \* what the judge model does when it is invoked
    returned,       \* agent_results handed to the evaluator
    judged,         \* what the evaluator call returned
    configurationResults,   \* the dict handed to compile_results
    compiled,       \* what compile_results returned
    plan,           \* what the agent and the judge do in each cell of the run
    test_queries,   \* self.test_queries
    pc,             \* the point run_full_evaluation has reached
    config_i,       \* index of the configuration under test
    query_i,        \* index of the test case of the cell
    cell,           \* the locals of the cell: timer, answer, results, exception
    clock,          \* time.time(), in steps
    configuration_results,  \* the records of the configuration under test
    all_results,    \* the records of the finished configurations, by name
    report,         \* evaluation/results.json
    catalog,        \* self.sample_properties of the metadata-only search
    query,          \* the query handed to the metadata-only search
    found,          \* what _metadata_only_search returned
    property_listings,  \* the listings handed to upsert_properties
    batch_size,     \* its batch_size
    upsert,         \* the locals of upsert_properties: position, batch lists, counters
    vector_store,   \* the add_texts calls made, in order
    counts          \* the dict upsert_properties returned

filterVars == <<filters, filtersGiven, op, emitted, result, issued>>
parserVars == <<response, parsed, scan>>
matcherVars == <<sampleProperties, partial, matched>>
judgeVars == <<reply, returned, judged>>
metricsVars == <<configurationResults, compiled>>
pipelineVars ==
    <<plan, test_queries, pc, config_i, query_i, cell, clock, configuration_results, all_results, report>>
evaluationVars == <<matcherVars, judgeVars, metricsVars, pipelineVars>>
searchVars == <<catalog, query, found>>
upsertVars == <<property_listings, batch_size, upsert, vector_store, counts>>
vars == <<filterVars, parserVars, evaluationVars, searchVars, upsertVars>>

NoValue == [kind |-> "novalue"]
NotParsed == [done |-> FALSE, raised |-> FALSE, value |-> <<>>]

\* no call into the filter compiler is under way
FilterIdle ==
    /\ filtersGiven = FALSE
    /\ filters = EmptyDict
    /\ op = "none"
    /\ emitted = <<>>
    /\ result = NoValue
    /\ issued = NoValue

\* the parser is not being followed line by line
NotScanning == [pc |-> "idle", i |-> 0, lines |-> <<>>, properties |-> <<>>,
                current_property |-> <<>>]

\* no answer is being parsed
ParserIdle ==
    /\ response = <<>>
    /\ parsed = NotParsed
    /\ scan = NotScanning

NotMatched == [done |-> FALSE, found |-> FALSE, id |-> ""]
NoPartial == [title |-> <<>>, city |-> <<>>, price |-> 0]

\* no direct call of the matcher is under way
MatcherIdle ==
    /\ sampleProperties = sample_properties
    /\ partial = NoPartial
    /\ matched = NotMatched

NotJudged == [op |-> "none", raised |-> FALSE, value |-> NoDict]

\* no call into the evaluator is under way
JudgeIdle ==
    /\ reply = JudgeRaises
    /\ returned = <<>>
    /\ judged = NotJudged

NotCompiled == [done |-> FALSE, raised |-> FALSE, summary |-> NoResults]

\* no direct call of compile_results is under way
MetricsIdle ==
    /\ configurationResults = NoResults
    /\ compiled = NotCompiled

\* a cell's behaviour: what the agent does and what the judge does
Behaviour(agent, judge) == [agent |-> agent, judge |-> judge]

\* every cell behaves as base
Uniform(base) == [base |-> base, odd |-> base, odd_cell |-> <<0, 0>>]

\* every cell behaves as base but for the cell of configuration c and query q,
\* where one of the two services behaves otherwise
OddAt(base, odd, c, q) == [base |-> base, odd |-> odd, odd_cell |-> <<c, q>>]

\* the locals of a cell before its search
FreshCell ==
    [timer |-> "off", start_time |-> 0, latency_ms |-> Zero, response_text |-> <<>>,
     search_results |-> <<>>, error |-> ""]

NoReport == [written |-> FALSE, summary |-> NoResults]

\* run_full_evaluation is not running
PipelineIdle ==
    /\ plan = Uniform(Behaviour(AgentRaises, JudgeRaises))
    /\ test_queries = TEST_QUERIES
    /\ pc = "idle"
    /\ config_i = 0
    /\ query_i = 0
    /\ cell = FreshCell
    /\ clock = 0
    /\ configuration_results = <<>>
    /\ all_results = NoResults
    /\ report = NoReport

NotFound == [done |-> FALSE, value |-> <<>>]

\* no direct call of the metadata-only search is under way
SearchIdle ==
    /\ catalog = <<>>
    /\ query = <<>>
    /\ found = NotFound

NotUpserting ==
    [pc |-> "idle", i |-> 0, batch |-> <<>>, batch_texts |-> <<>>, batch_metadatas |-> <<>>,
     batch_ids |-> <<>>, successful_upserts |-> 0, failed_upserts |-> 0]

NoCounts == [returned |-> FALSE, total |-> 0, successful |-> 0, failed |-> 0]

\* upsert_properties is not running
UpsertIdle ==
    /\ property_listings = <<>>
    /\ batch_size = 1
    /\ upsert = NotUpserting
    /\ vector_store = <<>>
    /\ counts = NoCounts

\* nothing of the evaluation harness or of the ingestion is running
EvaluationIdle ==
    /\ MatcherIdle
    /\ JudgeIdle
    /\ MetricsIdle
    /\ PipelineIdle
    /\ SearchIdle
    /\ UpsertIdle

FilterInit ==
    /\ filtersGiven \in BOOLEAN
    /\ \E K \in KeySets : filters \in FilterDicts(K)
    /\ (~filtersGiven => filters = EmptyDict)
    /\ op = "none"
    /\ emitted = <<>>
    /\ result = NoValue
    /\ issued = NoValue
    /\ ParserIdle
    /\ EvaluationIdle

\* PropertySearchTool._run(query, filters)
PropertySearchTool_run ==
    /\ op = "none"
    /\ op' = "_run"
    /\ issued' = pinecone_filters(filtersGiven, filters)
    /\ UNCHANGED <<filters, filtersGiven, emitted, result, parserVars, evaluationVars, searchVars, upsertVars>>

\* pinecone_client.build_metadata_filter(**filters)
BuildMetadataFilter ==
    /\ op = "none"
    /\ filtersGiven
    /\ op' = "build_metadata_filter"
    /\ emitted' = filter_conditions(filters)
    /\ result' = build_metadata_filter(filters)
    /\ UNCHANGED <<filters, filtersGiven, issued, parserVars, evaluationVars, searchVars, upsertVars>>

\* pinecone_client.build_price_filter(min_price, max_price)
BuildPriceFilter ==
    /\ op = "none"
    /\ filtersGiven
    /\ op' = "build_price_filter"
    /\ result' = build_price_filter(Get(filters.min_price), Get(filters.max_price))
    /\ UNCHANGED <<filters, filtersGiven, emitted, issued, parserVars, evaluationVars, searchVars, upsertVars>>

FilterNext ==
    \/ PropertySearchTool_run
    \/ BuildMetadataFilter
    \/ BuildPriceFilter

FilterSpec == FilterInit /\ [][FilterNext]_vars

(***************************************************************************)
(* The response parser run on one answer.                                  *)
(***************************************************************************)
\* longest answer, in lines
MaxLines == 3

ParserInit ==
    /\ FilterIdle
    /\ response \in SeqsUpTo(LinePool, MaxLines)
    /\ parsed = NotParsed
    /\ scan = NotScanning
    /\ EvaluationIdle

\* self._parse_agent_response(response_text)
ParseAgentResponse ==
    /\ ~parsed.done
    /\ LET r == parse_agent_response(Join(response))
       IN  parsed' = [done |-> TRUE, raised |-> r.raised, value |-> r.value]
    /\ UNCHANGED <<response, scan, filterVars, evaluationVars, searchVars, upsertVars>>

ParserNext == ParseAgentResponse

ParserSpec == ParserInit /\ [][ParserNext]_vars

(***************************************************************************)
(* The response parser followed line by line: the loop, the flush after    *)
(* it and the except clause.                                               *)
(***************************************************************************)
ScanInit ==
    /\ FilterIdle
    /\ response \in SeqsUpTo(LinePool, MaxLines)
    /\ parsed = NotParsed
    /\ scan = [pc |-> "loop", i |-> 1, lines |-> Split(Join(response)),
               properties |-> <<>>, current_property |-> <<>>]
    /\ EvaluationIdle

\* for line in lines: one iteration
ScanLine ==
    /\ scan.pc = "loop"
    /\ scan.i <= Len(scan.lines)
    /\ LET step == ParseLine(scan.lines[scan.i], scan.properties, scan.current_property)
       IN  scan' = [scan EXCEPT !.pc = IF step.raised THEN "except" ELSE "loop",
                                !.i = scan.i + 1,
                                !.properties = step.properties,
                                !.current_property = step.current_property]
    /\ UNCHANGED <<response, parsed, filterVars, evaluationVars, searchVars, upsertVars>>

\* after the loop: the last property is added and properties is returned
FlushAndReturn ==
    /\ scan.pc = "loop"
    /\ scan.i > Len(scan.lines)
    /\ LET r == TryExcept([raised |-> FALSE,
                           properties |-> scan.properties \o scan.current_property])
       IN  /\ parsed' = [done |-> TRUE, raised |-> r.raised, value |-> r.value]
           /\ scan' = [scan EXCEPT !.pc = "returned",
                                   !.properties = scan.properties \o scan.current_property]
    /\ UNCHANGED <<response, filterVars, evaluationVars, searchVars, upsertVars>>

\* except Exception: return []
ExceptAndReturn ==
    /\ scan.pc = "except"
    /\ LET r == TryExcept([raised |-> TRUE, properties |-> scan.properties])
       IN  /\ parsed' = [done |-> TRUE, raised |-> r.raised, value |-> r.value]
           /\ scan' = [scan EXCEPT !.pc = "returned"]
    /\ UNCHANGED <<response, filterVars, evaluationVars, searchVars, upsertVars>>

ScanNext ==
    \/ ScanLine
    \/ FlushAndReturn
    \/ ExceptAndReturn

ScanSpec == ScanInit /\ [][ScanNext]_vars

(***************************************************************************)
(* The property matcher run on one partial record against one catalog.     *)
(***************************************************************************)
\* longest catalog, in entries
MaxCatalog == 2

\* the property_id of the i-th entry of a catalog
PropertyIds ==
    <<"PROP_001", "PROP_002", "PROP_003", "PROP_004", "PROP_005", "PROP_006">>

MatcherTitles ==
    {<<"S", "u", "n", " ", "C", "o", "n", "d", "o">>,
     <<"s", "u", "n", " ", "c", "o", "n", "d", "o">>,
     <<"L", "o", "f", "t">>}
MatcherCities == {<<"M", "i", "a", "m", "i">>, <<"M", "I", "A", "M", "I">>}
MatcherPrices == {450000, 450001}

\* title, city and price of a catalog entry or of a partial record
Listings == [title : MatcherTitles, city : MatcherCities, price : MatcherPrices]

Catalogs ==
    {[i \in 1..Len(entries) |->
        [property_id |-> PropertyIds[i], title |-> entries[i].title,
         city |-> entries[i].city, price |-> entries[i].price]] :
     entries \in SeqsUpTo(Listings, MaxCatalog)}

MatcherInit ==
    /\ FilterIdle
    /\ ParserIdle
    /\ sampleProperties \in Catalogs
    /\ partial \in Listings
    /\ matched = NotMatched
    /\ JudgeIdle
    /\ MetricsIdle
    /\ PipelineIdle
    /\ SearchIdle
    /\ UpsertIdle

\* self._find_matching_property_id(parsed_property)
FindMatchingPropertyId ==
    /\ ~matched.done
    /\ LET r == find_matching_property_id(sampleProperties, partial)
       IN  matched' = [done |-> TRUE, found |-> r.found, id |-> r.id]
    /\ UNCHANGED <<sampleProperties, partial, filterVars, parserVars, judgeVars, metricsVars, pipelineVars, searchVars, upsertVars>>

MatcherNext == FindMatchingPropertyId

MatcherSpec == MatcherInit /\ [][MatcherNext]_vars

(***************************************************************************)
(* The evaluator run on one judge reply.                                   *)
(***************************************************************************)
\* longest reply of the judge, in lines
MaxReplyLines == 3

ReplyLines ==
    {<<"A", "C", "C", "U", "R", "A", "C", "Y", ":", " ", "0", ".", "5">>,
     <<" ", " ", "A", "C", "C", "U", "R", "A", "C", "Y", ":", "1", ".", "0", " ">>,
     <<"A", "C", "C", "U", "R", "A", "C", "Y", ":", " ", "1", ".", "5">>,
     <<"A", "C", "C", "U", "R", "A", "C", "Y", ":", " ", "h", "i", "g", "h">>,
     <<"A", "C", "C", "U", "R", "A", "C", "Y", ":", " ", "[", "0", ".", "8", "]">>,
     <<"I", "S", "_", "C", "O", "R", "R", "E", "C", "T", ":", " ", "T", "r", "u", "e">>,
     <<"I", "S", "_", "C", "O", "R", "R", "E", "C", "T", ":", " ", "f", "a", "l", "s", "e">>,
     <<"I", "S", "_", "C", "O", "R", "R", "E", "C", "T", ":", " ", "y", "e", "s">>,
     <<"R", "E", "A", "S", "O", "N", "I", "N", "G", ":", " ", "o", "k", ":", " ", "a", "l", "l", " ", "m", "a", "t", "c", "h">>,
     <<"a", "c", "c", "u", "r", "a", "c", "y", ":", " ", "1", ".", "0">>,
     <<>>}

\* '\n'.join(lines)
RECURSIVE JoinText(_)
JoinText(lines) ==
    IF lines = <<>> THEN <<>>
    ELSE IF Len(lines) = 1 THEN lines[1]
    ELSE lines[1] \o <<Newline>> \o JoinText(Tail(lines))

ReplyTexts == {JoinText(lines) : lines \in SeqsUpTo(ReplyLines, MaxReplyLines)}

JudgeOutcomes ==
    {JudgeRaises, JudgeNoChoices, JudgeReplies(NoContent)}
        \cup {JudgeReplies(Content(text)) : text \in ReplyTexts}

\* the records a search hands to the evaluator, as far as it reads them
AgentResults == {<<>>, <<[property_id |-> "PROP_001"]>>, <<[property_id |-> "UNKNOWN"], [property_id |-> "PROP_002"]>>}

JudgeInit ==
    /\ FilterIdle
    /\ ParserIdle
    /\ MatcherIdle
    /\ reply \in JudgeOutcomes
    /\ returned \in AgentResults
    /\ judged = NotJudged
    /\ MetricsIdle
    /\ PipelineIdle
    /\ SearchIdle
    /\ UpsertIdle

\* self._parse_evaluation(evaluation_text) on the content of a reply
ParseEvaluation ==
    /\ judged.op = "none"
    /\ reply.kind = "reply"
    /\ LET r == parse_evaluation(reply.content)
       IN  judged' = [op |-> "_parse_evaluation", raised |-> FALSE,
                      value |-> [NoDict EXCEPT !.keys = {"accuracy", "is_correct", "reasoning"},
                                               !.accuracy = r.accuracy,
                                               !.is_correct = r.is_correct,
                                               !.reasoning = r.reasoning]]
    /\ UNCHANGED <<reply, returned, filterVars, parserVars, matcherVars, metricsVars, pipelineVars, searchVars, upsertVars>>

\* self.evaluator.evaluate_search_results(query, agent_results, ...)
EvaluateSearchResults ==
    /\ judged.op = "none"
    /\ LET r == evaluate_search_results(returned, reply)
       IN  judged' = [op |-> "evaluate_search_results", raised |-> r.raised, value |-> r.value]
    /\ UNCHANGED <<reply, returned, filterVars, parserVars, matcherVars, metricsVars, pipelineVars, searchVars, upsertVars>>

JudgeNext ==
    \/ ParseEvaluation
    \/ EvaluateSearchResults

JudgeSpec == JudgeInit /\ [][JudgeNext]_vars

(***************************************************************************)
(* The metrics aggregator run on one dict of evaluation lists.             *)
(***************************************************************************)
\* longest evaluation list of a configuration
MaxRecords == 3

\* an evaluation record as _test_configuration accumulates it
EvaluationRecord(accuracy, is_correct, latency_ms) ==
    [NoDict EXCEPT !.keys = {"accuracy", "is_correct", "reasoning", "query",
                             "returned_property_ids", "expected_property_ids",
                             "evaluation_text", "latency_ms", "configuration"},
                   !.accuracy = accuracy, !.is_correct = is_correct,
                   !.latency_ms = latency_ms]

\* the record of a cell whose search or judgment raised
ErrorRecord ==
    [NoDict EXCEPT !.keys = {"accuracy", "is_correct", "latency_ms", "error", "configuration"},
                   !.error = ErrorText("APIError")]

\* accuracies 1.0, 0.5, 0.0 and latencies 12.5, 30.0, 0.0 ms
RecordPool ==
    {EvaluationRecord([num |-> 1, den |-> 1], TRUE, [num |-> 125, den |-> 10]),
     EvaluationRecord([num |-> 5, den |-> 10], FALSE, [num |-> 30, den |-> 1]),
     EvaluationRecord([num |-> 5, den |-> 10], TRUE, [num |-> 125, den |-> 10]),
     ErrorRecord}

\* the configurations of the dict handed to compile_results
MetricsNames == {TEST_CONFIGURATIONS[1].name, TEST_CONFIGURATIONS[5].name}

Labelled(evaluations, name) ==
    [i \in 1..Len(evaluations) |-> [evaluations[i] EXCEPT !.configuration = name]]

ResultDicts ==
    UNION {{[name \in names |-> Labelled(lists[name], name)] :
               lists \in [names -> SeqsUpTo(RecordPool, MaxRecords)]} :
           names \in (SUBSET MetricsNames) \ {{}}}

MetricsInit ==
    /\ FilterIdle
    /\ ParserIdle
    /\ MatcherIdle
    /\ JudgeIdle
    /\ configurationResults \in ResultDicts
    /\ compiled = NotCompiled
    /\ PipelineIdle
    /\ SearchIdle
    /\ UpsertIdle

\* metrics_calculator.compile_results(all_results)
CompileResults ==
    /\ ~compiled.done
    /\ LET r == compile_results(configurationResults)
       IN  compiled' = [done |-> TRUE, raised |-> r.raised, summary |-> r.summary]
    /\ UNCHANGED <<configurationResults, filterVars, parserVars, matcherVars, judgeVars, pipelineVars, searchVars, upsertVars>>

MetricsNext == CompileResults

MetricsSpec == MetricsInit /\ [][MetricsNext]_vars

(***************************************************************************)
(* _metadata_only_search on its own: a catalog of up to MaxCatalogSize     *)
(* listings, each with its own property_id, and a query.                   *)
(***************************************************************************)
MaxCatalogSize == 11

\* the titles and descriptions the listings of a catalog are drawn from
SearchListings ==
    {[title |-> <<"S", "u", "n", " ", "C", "o", "n", "d", "o">>, description |-> <<"O", "c", "e", "a", "n", " ", "v", "i", "e", "w", "s", " ", "a", "n", "d", " ", "a", " ", "p", "o", "o", "l">>],
     [title |-> <<"L", "o", "f", "t">>, description |-> <<"M", "o", "d", "e", "r", "n", " ", "l", "o", "f", "t", " ", "d", "o", "w", "n", "t", "o", "w", "n">>],
     [title |-> <<"C", "a", "b", "i", "n">>, description |-> <<"Q", "u", "i", "e", "t">>]}

\* the property_id of the k-th listing of a catalog
PropertyIdAt(k) ==
    <<"PROP_001", "PROP_002", "PROP_003", "PROP_004", "PROP_005", "PROP_006", "PROP_007",
      "PROP_008", "PROP_009", "PROP_010", "PROP_011", "PROP_012", "PROP_013", "PROP_014">>[k]

\* the catalog of n listings that repeats the listings of base in turn
CatalogOf(base, n) ==
    [k \in 1..n |->
        [property_id |-> PropertyIdAt(k),
         title |-> base[((k - 1) % Len(base)) + 1].title,
         city |-> <<"M", "i", "a", "m", "i">>,
         price |-> 450000,
         description |-> base[((k - 1) % Len(base)) + 1].description]]

SearchCatalogs ==
    {CatalogOf(base, n) : base \in SeqsUpTo(SearchListings, 2) \ {<<>>},
                          n \in 0..MaxCatalogSize}

SearchQueries ==
    {<<>>, <<" ", " ">>, <<"c", "o", "n", "d", "o">>, <<"L", "o", "f", "t", " ", "P", "O", "O", "L">>, <<" ", "v", "i", "l", "l", "a", " ">>, <<"a", " ", "q", "u", "i", "e", "t">>, <<"M", "o", "d", "e", "r", "n", "e">>}

SearchInit ==
    /\ FilterIdle
    /\ ParserIdle
    /\ MatcherIdle
    /\ JudgeIdle
    /\ MetricsIdle
    /\ PipelineIdle
    /\ UpsertIdle
    /\ catalog \in SearchCatalogs
    /\ query \in SearchQueries
    /\ found = NotFound

\* self._metadata_only_search(query)
MetadataOnlySearchCall ==
    /\ ~found.done
    /\ found' = [done |-> TRUE, value |-> metadata_only_search(catalog, query)]
    /\ UNCHANGED <<catalog, query, filterVars, parserVars, evaluationVars, upsertVars>>

SearchNext == MetadataOnlySearchCall

SearchSpec == SearchInit /\ [][SearchNext]_vars

(***************************************************************************)
(* run_full_evaluation: the eight configurations against the ten test      *)
(* cases, one step at a time.  The agent and the judge are the             *)
(* environment: the plan fixes what they do in each cell.                  *)
(***************************************************************************)
\* the cell that departs from the plan's base behaviour is one of the first
\* MaxOddQuery test cases of a configuration
MaxOddQuery == 1

\* an answer of the agent with one listing
AnswerText ==
    Join(<<TitleLine(0, <<"S", "u", "n", " ", "C", "o", "n", "d", "o">>, <<"D", "o", "w", "n", "t", "o", "w", "n">>, <<"M", "i", "a", "m", "i">>, <<"F", "L">>, IntAmount(450000)),
           DetailsLine(1, 2, 20, FALSE, <<"9", "0", "0", " ", "s", "q", "f", "t">>, <<"c", "o", "n", "d", "o">>, TRUE, <<>>)>>)

AgentOutcomes == {AgentAnswers(AnswerText), AgentRaises, AgentImportFails}

PipelineJudgeOutcomes ==
    {JudgeRaises,
     JudgeReplies(Content(JoinText(<<<<"A", "C", "C", "U", "R", "A", "C", "Y", ":", " ", "0", ".", "5">>, <<"I", "S", "_", "C", "O", "R", "R", "E", "C", "T", ":", " ", "T", "r", "u", "e">>, <<"R", "E", "A", "S", "O", "N", "I", "N", "G", ":", " ", "o", "k", ":", " ", "a", "l", "l", " ", "m", "a", "t", "c", "h">>>>))),
     JudgeReplies(Content(JoinText(<<<<"A", "C", "C", "U", "R", "A", "C", "Y", ":", " ", "1", ".", "5">>, <<"I", "S", "_", "C", "O", "R", "R", "E", "C", "T", ":", " ", "T", "r", "u", "e">>>>))),
     JudgeReplies(Content(JoinText(<<<<"I", "S", "_", "C", "O", "R", "R", "E", "C", "T", ":", " ", "T", "r", "u", "e">>, <<"A", "C", "C", "U", "R", "A", "C", "Y", ":", " ", "h", "i", "g", "h">>>>)))}

Behaviours == {Behaviour(agent, judge) : agent \in AgentOutcomes, judge \in PipelineJudgeOutcomes}

Plans ==
    {Uniform(base) : base \in Behaviours}
        \cup {p \in {OddAt(base, odd, c, q) :
                        base \in Behaviours, odd \in Behaviours,
                        c \in 1..Len(TEST_CONFIGURATIONS), q \in 1..MaxOddQuery} :
                \/ (p.odd.agent # p.base.agent /\ p.odd.judge = p.base.judge)
                \/ (p.odd.agent = p.base.agent /\ p.odd.judge # p.base.judge)}

\* what the agent and the judge do in the cell under test
BehaviourNow ==
    IF plan.odd_cell = <<config_i, query_i>> THEN plan.odd ELSE plan.base

config == TEST_CONFIGURATIONS[config_i]
test_case == test_queries[query_i]

PipelineInit ==
    /\ FilterIdle
    /\ ParserIdle
    /\ MatcherIdle
    /\ JudgeIdle
    /\ MetricsIdle
    /\ plan \in Plans
    /\ test_queries = TEST_QUERIES
    /\ pc = "configuration"
    /\ config_i = 1
    /\ query_i = 0
    /\ cell = FreshCell
    /\ clock = 0
    /\ configuration_results = <<>>
    /\ all_results = NoResults
    /\ report = NoReport
    /\ SearchIdle
    /\ UpsertIdle

restVars ==
    <<filterVars, parserVars, matcherVars, judgeVars, metricsVars, searchVars, upsertVars>>

\* for config in TEST_CONFIGURATIONS: self._test_configuration(config) begins
StartConfiguration ==
    /\ pc = "configuration"
    /\ config_i <= Len(TEST_CONFIGURATIONS)
    /\ configuration_results' = <<>>
    /\ query_i' = 1
    /\ pc' = "test_case"
    /\ UNCHANGED <<plan, test_queries, config_i, cell, clock, all_results, report, restVars>>

\* for test_case in self.test_queries: the search function is chosen and
\* measure_latency reads start_time
StartTimer ==
    /\ pc = "test_case"
    /\ query_i <= Len(test_queries)
    /\ cell' = [FreshCell EXCEPT !.timer = "running", !.start_time = clock]
    /\ pc' = create_search_function(config)
    /\ UNCHANGED <<plan, test_queries, config_i, query_i, clock, configuration_results, all_results,
                   report, restVars>>

\* a scan that takes the listings it goes through out of the catalog
MetadataOnlySearchConsuming ==
    /\ pc = "_metadata_only_search"
    /\ cell' = [cell EXCEPT !.search_results = metadata_only_search(sampleProperties, test_case.query)]
    /\ sampleProperties' = <<>>
    /\ clock' = clock + 1
    /\ pc' = "end_time"
    /\ UNCHANGED <<plan, test_queries, config_i, query_i, configuration_results, all_results,
                   report, partial, matched, filterVars, parserVars, judgeVars, metricsVars,
                   searchVars, upsertVars>>

\* func(query) where func is _metadata_only_search
MetadataOnlySearch ==
    /\ pc = "_metadata_only_search"
    /\ cell' = [cell EXCEPT !.search_results = metadata_only_search(sampleProperties, test_case.query)]
    /\ clock' = clock + 1
    /\ pc' = "end_time"
    /\ UNCHANGED <<plan, test_queries, config_i, query_i, configuration_results, all_results, report,
                   restVars>>

\* a vector search whose agent call is abandoned when it does not return
VectorSearchTimesOut ==
    /\ pc \in {"_vector_search_with_searchable_content", "_vector_search_description_only"}
    /\ clock' = clock + 1
    /\ IF BehaviourNow.agent.kind \in {"import_error", "hangs"}
       THEN /\ cell' = [cell EXCEPT !.error = "ImportError"]
            /\ pc' = "except"
       ELSE /\ cell' = [cell EXCEPT !.response_text = search_properties(BehaviourNow.agent)]
            /\ pc' = "_parse_agent_response"
    /\ UNCHANGED <<plan, test_queries, config_i, query_i, configuration_results, all_results, report,
                   restVars>>

\* func(query) where func is one of the two vector searches, up to the
\* return of real_estate_agent.search_properties(query); a failed import
\* raises out of func and of measure_latency
VectorSearch ==
    /\ pc \in {"_vector_search_with_searchable_content", "_vector_search_description_only"}
    /\ BehaviourNow.agent.kind # "hangs"
    /\ clock' = clock + 1
    /\ IF BehaviourNow.agent.kind = "import_error"
       THEN /\ cell' = [cell EXCEPT !.error = "ImportError"]
            /\ pc' = "except"
       ELSE /\ cell' = [cell EXCEPT !.response_text = search_properties(BehaviourNow.agent)]
            /\ pc' = "_parse_agent_response"
    /\ UNCHANGED <<plan, test_queries, config_i, query_i, configuration_results, all_results, report,
                   restVars>>

\* the rest of the vector search: return self._parse_agent_response(response_text),
\* which resolves the property ids
ParseInSearch ==
    /\ pc = "_parse_agent_response"
    /\ cell' = [cell EXCEPT !.search_results = parse_agent_response(cell.response_text).value]
    /\ clock' = clock + 1
    /\ pc' = "end_time"
    /\ UNCHANGED <<plan, test_queries, config_i, query_i, configuration_results, all_results, report,
                   restVars>>

\* measure_latency reads end_time and returns result, latency_ms
StopTimer ==
    /\ pc = "end_time"
    /\ cell' = [cell EXCEPT !.timer = "stopped",
                            !.latency_ms = Norm((clock - cell.start_time) * 1000, 1)]
    /\ pc' = "evaluate_search_results"
    /\ UNCHANGED <<plan, test_queries, config_i, query_i, clock, configuration_results, all_results,
                   report, restVars>>

\* the judgment of the cell, the update with its metrics and the append;
\* an exception out of the evaluator goes to the except clause
EvaluateCell ==
    /\ pc = "evaluate_search_results"
    /\ BehaviourNow.judge.kind # "hangs"
    /\ clock' = clock + 1
    /\ LET evaluation == evaluate_search_results(cell.search_results, BehaviourNow.judge)
       IN  IF evaluation.raised
           THEN /\ cell' = [cell EXCEPT !.error = "APIError"]
                /\ pc' = "except"
                /\ UNCHANGED <<query_i, configuration_results>>
           ELSE /\ configuration_results' =
                      Append(configuration_results,
                             WithMetrics(evaluation.value, cell.latency_ms, config.name))
                /\ query_i' = query_i + 1
                /\ pc' = "test_case"
                /\ UNCHANGED cell
    /\ UNCHANGED <<plan, test_queries, config_i, all_results, report, restVars>>

\* except Exception as e: the zero record of the cell is appended
ExceptCell ==
    /\ pc = "except"
    /\ configuration_results' = configuration_results \o FailedCell(cell.error, config.name)
    /\ query_i' = query_i + 1
    /\ pc' = "test_case"
    /\ UNCHANGED <<plan, test_queries, config_i, cell, clock, all_results, report, restVars>>

\* return configuration_results; all_results[config.name] = config_results
FinishConfiguration ==
    /\ pc = "test_case"
    /\ query_i > Len(test_queries)
    /\ all_results' = [name \in DOMAIN all_results \cup {config.name} |->
                          IF name = config.name THEN configuration_results
                          ELSE all_results[name]]
    /\ config_i' = config_i + 1
    /\ pc' = "configuration"
    /\ UNCHANGED <<plan, test_queries, query_i, cell, clock, configuration_results, report, restVars>>

\* a run that compiles and exports as soon as one configuration is finished
CompileAndExportEarly ==
    /\ pc = "configuration"
    /\ config_i > 1
    /\ LET r == compile_results(all_results)
       IN  IF r.raised
           THEN /\ pc' = "raised"
                /\ UNCHANGED report
           ELSE /\ pc' = "done"
                /\ report' = [written |-> TRUE, summary |-> r.summary]
    /\ UNCHANGED <<plan, test_queries, config_i, query_i, cell, clock, configuration_results, all_results,
                   restVars>>

\* compile_results, print_comparison_report and export_results_to_json
CompileAndExport ==
    /\ pc = "configuration"
    /\ config_i > Len(TEST_CONFIGURATIONS)
    /\ LET r == compile_results(all_results)
       IN  IF r.raised
           THEN /\ pc' = "raised"
                /\ UNCHANGED report
           ELSE /\ pc' = "done"
                /\ report' = [written |-> TRUE, summary |-> r.summary]
    /\ UNCHANGED <<plan, test_queries, config_i, query_i, cell, clock, configuration_results, all_results,
                   restVars>>

PipelineNext ==
    \/ StartConfiguration
    \/ StartTimer
    \/ MetadataOnlySearch
    \/ VectorSearch
    \/ ParseInSearch
    \/ StopTimer
    \/ EvaluateCell
    \/ ExceptCell
    \/ FinishConfiguration
    \/ CompileAndExport

PipelineSpec == PipelineInit /\ [][PipelineNext]_vars

(***************************************************************************)
(* run_full_evaluation with external calls that may never return.  The     *)
(* run is one thread of control: a step that can be taken is taken.        *)
(***************************************************************************)
\* the plans in which at most one cell departs from the base behaviour, by a
\* call of the agent or of the judge that never returns
StallPlans ==
    {Uniform(base) : base \in {b \in Behaviours : b.judge = JudgeRaises}}
        \cup {OddAt(base, odd, c, q) :
                  base \in {b \in Behaviours : b.judge = JudgeRaises},
                  odd \in {Behaviour(AgentHangs, JudgeRaises), Behaviour(AgentRaises, JudgeHangs)},
                  c \in 1..Len(TEST_CONFIGURATIONS), q \in 1..MaxOddQuery}

StallInit ==
    /\ FilterIdle
    /\ ParserIdle
    /\ MatcherIdle
    /\ JudgeIdle
    /\ MetricsIdle
    /\ SearchIdle
    /\ UpsertIdle
    /\ plan \in StallPlans
    /\ test_queries = TEST_QUERIES
    /\ pc = "configuration"
    /\ config_i = 1
    /\ query_i = 0
    /\ cell = FreshCell
    /\ clock = 0
    /\ configuration_results = <<>>
    /\ all_results = NoResults
    /\ report = NoReport

\* the external call the run is at never returns
AtHangingCall ==
    \/ /\ pc \in {"_vector_search_with_searchable_content", "_vector_search_description_only"}
       /\ BehaviourNow.agent.kind = "hangs"
    \/ /\ pc = "evaluate_search_results"
       /\ BehaviourNow.judge.kind = "hangs"

\* the points of run_full_evaluation
PipelinePoints ==
    {"configuration", "test_case", "_metadata_only_search",
     "_vector_search_with_searchable_content", "_vector_search_description_only",
     "_parse_agent_response", "end_time", "evaluate_search_results", "except", "done",
     "raised"}

\* the statement at pc completes and control moves to another point: every
\* statement that is not a call that never returns completes, until the run
\* has returned or raised
Advance ==
    /\ pc \notin {"done", "raised"}
    /\ ~AtHangingCall
    /\ pc' \in PipelinePoints \ {pc}

StallSpec == StallInit /\ [][PipelineNext]_vars /\ WF_pc(Advance)

(***************************************************************************)
(* PineconeClient.upsert_properties: the listings in batches.  A listing   *)
(* is its property_id and the step of its preparation that raises, if any; *)
(* the vector store's add_texts is the environment: it returns or raises.  *)
(***************************************************************************)
MaxListings == 3
MaxBatchSize == 2

\* the call a listing makes raise: none, get_searchable_content(),
\* to_dict_for_pinecone() after the text was appended, or the add_texts of the
\* batch that holds it (the store rejects its metadata)
Preparations == {"ok", "get_searchable_content", "to_dict_for_pinecone", "add_texts"}

\* the lists of n listings, numbered in order
ListingLists ==
    UNION {{[k \in 1..n |-> [property_id |-> k, preparation |-> f[k]]] :
               f \in [1..n -> Preparations]} : n \in 0..MaxListings}

\* the body of `for property_listing in batch`: three appends in a try, and
\* failed_upserts += 1 in the except clause
PrepareOne(u, property_listing) ==
    CASE property_listing.preparation = "get_searchable_content" ->
            [u EXCEPT !.failed_upserts = @ + 1]
      [] property_listing.preparation = "to_dict_for_pinecone" ->
            [u EXCEPT !.batch_texts = Append(@, property_listing.property_id),
                      !.failed_upserts = @ + 1]
      [] property_listing.preparation \in {"ok", "add_texts"} ->
            [u EXCEPT !.batch_texts = Append(@, property_listing.property_id),
                      !.batch_metadatas = Append(@, property_listing.property_id),
                      !.batch_ids = Append(@, property_listing.property_id)]

UpsertInit ==
    /\ FilterIdle
    /\ ParserIdle
    /\ MatcherIdle
    /\ JudgeIdle
    /\ MetricsIdle
    /\ PipelineIdle
    /\ SearchIdle
    /\ property_listings \in ListingLists
    /\ batch_size \in 1..MaxBatchSize
    /\ upsert = [NotUpserting EXCEPT !.pc = "batch"]
    /\ vector_store = <<>>
    /\ counts = NoCounts

\* for i in range(0, total_properties, batch_size): the slice and the empty lists
StartBatch ==
    /\ upsert.pc = "batch"
    /\ upsert.i < Len(property_listings)
    /\ LET last == IF upsert.i + batch_size < Len(property_listings)
                   THEN upsert.i + batch_size ELSE Len(property_listings)
       IN  upsert' = [upsert EXCEPT !.pc = "prepare",
                                    !.batch = SubSeq(property_listings, upsert.i + 1, last),
                                    !.batch_texts = <<>>,
                                    !.batch_metadatas = <<>>,
                                    !.batch_ids = <<>>]
    /\ UNCHANGED <<property_listings, batch_size, vector_store, counts, filterVars,
                   parserVars, evaluationVars, searchVars>>

\* for property_listing in batch: one listing is prepared
PrepareListing ==
    /\ upsert.pc = "prepare"
    /\ upsert.batch # <<>>
    /\ upsert' = [PrepareOne(upsert, Head(upsert.batch)) EXCEPT !.batch = Tail(upsert.batch)]
    /\ UNCHANGED <<property_listings, batch_size, vector_store, counts, filterVars,
                   parserVars, evaluationVars, searchVars>>

\* the listings among ids that the store rejects
Rejected(ids) ==
    {p \in 1..Len(ids) : property_listings[ids[p]].preparation = "add_texts"}

\* the batch is written: add_texts raises on a listing the store rejects, and
\* otherwise returns or raises (the connection); nothing is written when
\* batch_texts is empty
UpsertBatch ==
    /\ upsert.pc = "prepare"
    /\ upsert.batch = <<>>
    /\ IF upsert.batch_texts = <<>>
       THEN /\ upsert' = [upsert EXCEPT !.pc = "batch", !.i = @ + batch_size]
            /\ UNCHANGED vector_store
       ELSE \E raised \in BOOLEAN :
               /\ Rejected(upsert.batch_ids) # {} => raised
               /\ vector_store' = Append(vector_store,
                                         [texts |-> upsert.batch_texts,
                                          metadatas |-> upsert.batch_metadatas,
                                          ids |-> upsert.batch_ids,
                                          raised |-> raised])
               /\ upsert' = [upsert EXCEPT
                      !.pc = "batch",
                      !.i = @ + batch_size,
                      !.successful_upserts =
                          IF raised THEN @ ELSE @ + Len(upsert.batch_texts),
                      !.failed_upserts =
                          IF raised THEN @ + Len(upsert.batch_texts) ELSE @]
    /\ UNCHANGED <<property_listings, batch_size, counts, filterVars, parserVars,
                   evaluationVars, searchVars>>

\* result = {"total": ..., "successful": ..., "failed": ...}; return result
ReturnCounts ==
    /\ upsert.pc = "batch"
    /\ upsert.i >= Len(property_listings)
    /\ counts' = [returned |-> TRUE,
                  total |-> Len(property_listings),
                  successful |-> upsert.successful_upserts,
                  failed |-> upsert.failed_upserts]
    /\ upsert' = [upsert EXCEPT !.pc = "returned"]
    /\ UNCHANGED <<property_listings, batch_size, vector_store, filterVars, parserVars,
                   evaluationVars, searchVars>>

UpsertNext ==
    \/ StartBatch
    \/ PrepareListing
    \/ UpsertBatch
    \/ ReturnCounts

UpsertSpec == UpsertInit /\ [][UpsertNext]_vars

(***************************************************************************)
(* Vocabulary of the filter compiler's properties.                         *)
(***************************************************************************)
\* the leaves of a tree, left to right
LeavesOf(node) ==
    CASE node.kind = "leaf" -> <<node>>
      [] node.kind = "and" ->
            LET RECURSIVE Flat(_)
                Flat(i) ==
                    IF i > Len(node.children) THEN <<>>
                    ELSE LET c == node.children[i]
                         IN  (IF c.kind = "and" THEN c.children ELSE <<c>>) \o Flat(i + 1)
            IN  Flat(1)
      [] OTHER -> <<>>

IsStatusLeaf(c) == c.kind = "leaf" /\ c.field = "status" /\ c.op = "$eq"

StatusLeaves(node) == {i \in 1..Len(LeavesOf(node)) : IsStatusLeaf(LeavesOf(node)[i])}

\* the tree holds the condition status = "active"
HasActiveStatus(node) ==
    \E i \in StatusLeaves(node) : LeavesOf(node)[i].value = Str("active")

NumberKeys == {"min_bedrooms", "min_bathrooms", "min_price", "max_price"}

\* a field the caller populated: a non-empty string, a number, a non-empty list
Populated(d, k) ==
    /\ d[k] # Absent
    /\ IF k \in NumberKeys THEN d[k] # None
       ELSE IF k = "status" THEN TRUE
       ELSE Truthy(d[k])

PopulatedKeys(d) == {k \in Keys : Populated(d, k)}
PopulatedNonStatus(d) == PopulatedKeys(d) \ {"status"}

\* the field name a filter argument constrains
FieldOf(k) ==
    CASE k = "min_bedrooms" -> "bedrooms"
      [] k = "min_bathrooms" -> "bathrooms"
      [] k \in {"min_price", "max_price"} -> "price"
      [] k = "required_amenities" -> "amenities"
      [] OTHER -> k

\* position of a condition in the order the compiler handles the fields
Rank(c) ==
    LET field == IF c.kind = "and" THEN "price" ELSE c.field
    IN  CASE field = "property_type" -> 1
          [] field = "city" -> 2
          [] field = "state" -> 3
          [] field = "neighborhood" -> 4
          [] field = "bedrooms" -> 5
          [] field = "bathrooms" -> 6
          [] field = "price" -> 7
          [] field = "amenities" -> 8
          [] OTHER -> 9

Ran(name) == op = name

(***************************************************************************)
(* C1.  Every search issued through PropertySearchTool._run by a caller    *)
(* that passes no status (filters None or the empty dict included) carries *)
(* a filter containing the condition status = "active".                    *)
(***************************************************************************)
C1_DefaultStatusOnEverySearch ==
    (Ran("_run") /\ filters.status = Absent) => HasActiveStatus(issued)

(***************************************************************************)
(* C2.  The tree build_metadata_filter returns holds exactly one status    *)
(* equality leaf, whose value is the supplied status, or "active" when     *)
(* none is supplied; the condition list is never empty and the result is   *)
(* never the empty filter.                                                 *)
(***************************************************************************)
C2_ExactlyOneStatusLeaf ==
    Ran("build_metadata_filter") =>
        /\ Cardinality(StatusLeaves(result)) = 1
        /\ \A i \in StatusLeaves(result) :
              LeavesOf(result)[i].value =
                  (IF filters.status = Absent THEN Str("active") ELSE filters.status)
        /\ emitted # <<>>
        /\ result # EmptyFilter

C2_Witness ==
    /\ Ran("build_metadata_filter")
    /\ filters.status = Str("sold")
    /\ filters.city = Str("Miami")
    /\ result.kind = "and"

(***************************************************************************)
(* C3 as stated.  With at least two populated fields the result is a       *)
(* conjunction with exactly N leaves: one per populated non-status field   *)
(* plus the status leaf.                                                   *)
(***************************************************************************)
C3_OneLeafPerField ==
    (Ran("build_metadata_filter") /\ Cardinality(PopulatedKeys(filters)) >= 2) =>
        /\ result.kind = "and"
        /\ Len(LeavesOf(result)) = Cardinality(PopulatedNonStatus(filters)) + 1

(***************************************************************************)
(* C3 as amended.  With at least two populated fields the result is a      *)
(* conjunction whose leaves are one per populated scalar field, one per    *)
(* entry of required_amenities, and the status leaf.                       *)
(***************************************************************************)
C3_OneLeafPerFieldAndAmenity ==
    (Ran("build_metadata_filter") /\ Cardinality(PopulatedKeys(filters)) >= 2) =>
        /\ result.kind = "and"
        /\ Len(LeavesOf(result)) =
              Cardinality(PopulatedNonStatus(filters) \ {"required_amenities"})
              + Len(filters.required_amenities.l) + 1

C3_Witness ==
    /\ Ran("build_metadata_filter")
    /\ filters.city = Str("Miami")
    /\ filters.required_amenities = List(<<"pool", "gym">>)
    /\ Len(LeavesOf(result)) = 4

(***************************************************************************)
(* C4 as stated.  With exactly one populated non-status field and status   *)
(* left at its default, the result is that field's single leaf, unwrapped. *)
(***************************************************************************)
C4_SingleFieldUnwrapped ==
    (/\ Ran("build_metadata_filter")
     /\ Cardinality(PopulatedNonStatus(filters)) = 1
     /\ filters.status = Absent) =>
        /\ result.kind = "leaf"
        /\ \A k \in PopulatedNonStatus(filters) : result.field = FieldOf(k)

(***************************************************************************)
(* C4 as amended.  With exactly one populated non-status field and status  *)
(* left at its default, the result is a conjunction: that field's          *)
(* condition or conditions followed by the leaf status = "active".  The    *)
(* result is an unwrapped leaf only when no non-status field is populated, *)
(* and then it is the status leaf.                                         *)
(***************************************************************************)
C4_SingleFieldWrappedWithStatus ==
    Ran("build_metadata_filter") =>
        /\ (Cardinality(PopulatedNonStatus(filters)) = 1 /\ filters.status = Absent) =>
              /\ result.kind = "and"
              /\ Len(result.children) >= 2
              /\ result.children[Len(result.children)] = Leaf("status", "$eq", Str("active"))
              /\ \A i \in 1..(Len(result.children) - 1) :
                    \A k \in PopulatedNonStatus(filters) :
                        /\ result.children[i].kind = "leaf"
                        /\ result.children[i].field = FieldOf(k)
        /\ (result.kind = "leaf") <=> (PopulatedNonStatus(filters) = {})
        /\ (result.kind = "leaf") => IsStatusLeaf(result)

C4_Witness ==
    /\ Ran("build_metadata_filter")
    /\ PopulatedKeys(filters) = {"city"}
    /\ result = AndNode(<<Leaf("city", "$eq", Str("Miami")),
                          Leaf("status", "$eq", Str("active"))>>)

(***************************************************************************)
(* C5.  One emitted condition is returned unwrapped; more than one give a  *)
(* single $and node whose children are all the emitted conditions, in      *)
(* emission order, the status condition last.                              *)
(***************************************************************************)
C5_CombinationRule ==
    Ran("build_metadata_filter") =>
        /\ Len(emitted) = 1 => result = emitted[1]
        /\ Len(emitted) > 1 => (result.kind = "and" /\ result.children = emitted)
        /\ emitted # <<>> /\ IsStatusLeaf(emitted[Len(emitted)])
        /\ \A i \in 1..(Len(emitted) - 1) :
              /\ ~IsStatusLeaf(emitted[i])
              /\ Rank(emitted[i]) <= Rank(emitted[i + 1])

C5_WitnessUnwrapped ==
    /\ Ran("build_metadata_filter")
    /\ Len(emitted) = 1
    /\ result = Leaf("status", "$eq", Str("sold"))

(***************************************************************************)
(* C6.  Price filter: both bounds give one AND node with exactly the two   *)
(* leaves price >= min_price and price <= max_price; one bound gives that  *)
(* bound's leaf with no AND wrapper; no bound emits no price condition.    *)
(***************************************************************************)
PriceConditions(conds) ==
    {i \in 1..Len(conds) : Rank(conds[i]) = 7}

C6_PriceFilter ==
    LET lo == Get(filters.min_price)
        hi == Get(filters.max_price)
        expected ==
            IF lo # None /\ hi # None
            THEN AndNode(<<Leaf("price", "$gte", lo), Leaf("price", "$lte", hi)>>)
            ELSE IF lo # None THEN Leaf("price", "$gte", lo)
            ELSE IF hi # None THEN Leaf("price", "$lte", hi)
            ELSE EmptyFilter
    IN  /\ Ran("build_price_filter") => result = expected
        /\ Ran("build_metadata_filter") =>
              IF lo = None /\ hi = None
              THEN PriceConditions(emitted) = {}
              ELSE /\ Cardinality(PriceConditions(emitted)) = 1
                   /\ \A i \in PriceConditions(emitted) : emitted[i] = expected

C6_WitnessBoth ==
    /\ Ran("build_price_filter")
    /\ filters.min_price = Num(0)
    /\ filters.max_price = Num(1)
    /\ result.kind = "and"

(***************************************************************************)
(* C7.  required_amenities = [a1..ak] emits k separate containment         *)
(* conditions, ANDed: a record satisfies the compiled filter only if its   *)
(* amenities contain every required amenity.                               *)
(***************************************************************************)
AmenityPositions(conds) ==
    {i \in 1..Len(conds) : conds[i].kind = "leaf" /\ conds[i].field = "amenities"}

C7_EveryAmenityRequired ==
    (Ran("build_metadata_filter") /\ Populated(filters, "required_amenities")) =>
        LET required == filters.required_amenities.l
        IN  /\ result.kind = "and"
            /\ Cardinality(AmenityPositions(result.children)) = Len(required)
            /\ \A j \in 1..Len(required) :
                  \E i \in AmenityPositions(result.children) :
                      result.children[i] = Leaf("amenities", "$in", List(<<required[j]>>))
            /\ \A rec \in Records :
                  Matches(rec, result) =>
                      \A j \in 1..Len(required) : required[j] \in rec.amenities

C7_WitnessPoolAndGym ==
    /\ Ran("build_metadata_filter")
    /\ filters.required_amenities = List(<<"pool", "gym">>)
    /\ \E rec \in Records : rec.amenities = {"pool"} /\ ~Matches(rec, result)
    /\ \E rec \in Records : rec.amenities = {"pool", "gym"} /\ Matches(rec, result)

(***************************************************************************)
(* Vocabulary of the response parser's properties.                         *)
(***************************************************************************)
\* the lines of the answer as the parser sees them
SeenLines == Split(Join(response))

IsTitleLine(d) == d.shape = "title"

\* a title line whose amount is an integer with thousands separators,
\* with or without a trailing ".0"
IsIntegerAmount(d) == IsTitleLine(d) /\ d.amount.style \in {"int", "float"}

\* a title line whose amount int() rejects
IsUnconvertible(d) ==
    IsTitleLine(d) /\ ~ParseInt(AmountDigits(FormatAmount(d.amount))).ok

IsFullDetailsLine(d) == d.shape = "details" /\ d.closed

TitlePositions == {i \in 1..Len(response) : IsTitleLine(response[i])}

\* the position in the answer of the k-th title line
TitlePosition(k) ==
    CHOOSE i \in TitlePositions : Cardinality({j \in TitlePositions : j < i}) = k - 1

(***************************************************************************)
(* C8.  An answer of one title line "- T (N, C, S) <em dash> $P" and one   *)
(* details line "B bed | H bath | <text> | <type> | ..." parses to exactly *)
(* one record: title T, neighborhood N, city C, state S (trimmed), price   *)
(* the integer value of P, bedrooms B, bathrooms H as a float, and         *)
(* property_type the lower-cased type token.  T, N, C and S hold none of   *)
(* the pattern's delimiters; P is an integer written with thousands        *)
(* separators and an optional trailing ".0"; the type is one word.         *)
(***************************************************************************)
C8_TitleAndDetailsParse ==
    (/\ parsed.done
     /\ Len(response) = 2
     /\ IsIntegerAmount(response[1])
     /\ IsFullDetailsLine(response[2])) =>
        /\ ~parsed.raised
        /\ Len(parsed.value) = 1
        /\ LET r == parsed.value[1]
               t == response[1]
               d == response[2]
           IN  /\ r.title = t.title
               /\ r.neighborhood = t.neighborhood
               /\ r.city = t.city
               /\ r.state = t.state
               /\ r.price = t.amount.value
               /\ r.details = <<[bedrooms |-> d.bedrooms,
                                 bathrooms |-> Reduce(d.tenths, 10),
                                 property_type |-> Lower(d.ptype)]>>

C8_Witness ==
    /\ parsed.done
    /\ Len(response) = 2
    /\ IsIntegerAmount(response[1]) /\ response[1].pad = 1
    /\ response[1].amount.style = "float"
    /\ IsFullDetailsLine(response[2]) /\ response[2].tenths = 25
    /\ Len(parsed.value) = 1
    /\ parsed.value[1].price = 450000
    /\ parsed.value[1].details # <<>>

(***************************************************************************)
(* C9.  _parse_agent_response never raises, and for the empty string or    *)
(* any text in which no line matches the title pattern it returns an empty *)
(* sequence.                                                               *)
(***************************************************************************)
C9_NeverRaisesEmptyWithoutTitle ==
    parsed.done =>
        /\ ~parsed.raised
        /\ (\A i \in 1..Len(SeenLines) : ~title_match(Strip(SeenLines[i])).ok) =>
              parsed.value = <<>>

C9_WitnessDetailsWithoutTitle ==
    /\ parsed.done
    /\ Len(response) >= 2
    /\ \A i \in 1..Len(response) : ~IsTitleLine(response[i])
    /\ \E i \in 1..Len(response) : IsFullDetailsLine(response[i])
    /\ parsed.value = <<>>

(***************************************************************************)
(* C10 as stated.  In an answer that mixes well-formed records with a      *)
(* title line whose amount cannot be converted to an integer, the records  *)
(* assembled before that line are returned.                                *)
(***************************************************************************)
C10_AssembledRecordsReturned ==
    parsed.done =>
        \A i \in 1..Len(response) :
            (/\ IsIntegerAmount(response[i])
             /\ \A j \in 1..(i - 1) : ~IsUnconvertible(response[j])) =>
                \E k \in 1..Len(parsed.value) :
                    /\ parsed.value[k].title = response[i].title
                    /\ parsed.value[k].price = response[i].amount.value

(***************************************************************************)
(* C10 as amended.  Lines that match neither pattern are ignored and every *)
(* record assembled is returned, one per title line and in their order;    *)
(* but a title line whose amount cannot be converted to an integer makes   *)
(* the parser return the empty sequence, the records assembled before it   *)
(* included.                                                               *)
(***************************************************************************)
C10_UnconvertibleAmountDiscardsAll ==
    parsed.done =>
        /\ ~parsed.raised
        /\ IF \E i \in 1..Len(response) : IsUnconvertible(response[i])
           THEN parsed.value = <<>>
           ELSE /\ Len(parsed.value) = Cardinality(TitlePositions)
                /\ \A k \in 1..Len(parsed.value) :
                      LET t == response[TitlePosition(k)]
                      IN  /\ parsed.value[k].title = t.title
                          /\ IsIntegerAmount(t) => parsed.value[k].price = t.amount.value

C10_Witness ==
    /\ parsed.done
    /\ Len(response) = 3
    /\ IsIntegerAmount(response[1])
    /\ IsFullDetailsLine(response[2])
    /\ IsUnconvertible(response[3])
    /\ parsed.value = <<>>

(***************************************************************************)
(* Vocabulary of the parser followed line by line.                         *)
(***************************************************************************)
\* the title lines among the lines the loop has gone through
TitlesSeen == {j \in TitlePositions : j < scan.i}

\* the records assembled so far, the record in progress last
Assembled == scan.properties \o scan.current_property

\* record k carries the title of the k-th title line
InTitleOrder(records) ==
    \A k \in 1..Len(records) : records[k].title = response[TitlePosition(k)].title

\* the line the loop has just gone through is a title line
JustPassedTitle == scan.i - 1 \in TitlePositions

SomeUnconvertible == \E i \in 1..Len(response) : IsUnconvertible(response[i])

(***************************************************************************)
(* C20 as stated.  The output of _parse_agent_response has exactly one     *)
(* record per matched title line, in the order the title lines appear.     *)
(***************************************************************************)
C20_OneRecordPerTitleLine ==
    scan.pc = "returned" =>
        /\ Len(parsed.value) = Cardinality(TitlePositions)
        /\ InTitleOrder(parsed.value)

(***************************************************************************)
(* C20 as amended.  _parse_agent_response is an accumulate-and-flush       *)
(* machine over lines.  While no title amount has failed to convert, there *)
(* is a record in progress exactly when a title line has been passed, the  *)
(* records flushed are those of the earlier title lines in their order,    *)
(* and a title line just passed has flushed the record in progress and     *)
(* opened a new one with property_id "UNKNOWN" and no details.  At end of  *)
(* input the last open record is flushed and the output has one record per *)
(* title line in their order.  A title line whose amount cannot be         *)
(* converted ends the loop, and the output is then empty.                  *)
(***************************************************************************)
C20_AccumulateAndFlush ==
    /\ scan.pc = "loop" =>
          /\ Len(scan.current_property) = (IF TitlesSeen = {} THEN 0 ELSE 1)
          /\ Len(Assembled) = Cardinality(TitlesSeen)
          /\ InTitleOrder(Assembled)
          /\ JustPassedTitle =>
                /\ scan.current_property[1].property_id = "UNKNOWN"
                /\ scan.current_property[1].details = <<>>
                /\ scan.current_property[1].title = response[scan.i - 1].title
    /\ scan.pc = "except" => IsUnconvertible(response[scan.i - 1])
    /\ scan.pc = "returned" =>
          /\ ~parsed.raised
          /\ IF SomeUnconvertible
             THEN parsed.value = <<>>
             ELSE /\ scan.current_property # <<>> =>
                        parsed.value[Len(parsed.value)] = scan.current_property[1]
                  /\ Len(parsed.value) = Cardinality(TitlePositions)
                  /\ InTitleOrder(parsed.value)

\* two title lines with a details line between them: the second title line has
\* flushed the first record, details and all, and opened an "UNKNOWN" one
C20_WitnessFlushOnTitle ==
    /\ scan.pc = "loop"
    /\ scan.i = 4
    /\ IsTitleLine(response[1]) /\ IsFullDetailsLine(response[2]) /\ IsTitleLine(response[3])
    /\ Len(scan.properties) = 1
    /\ scan.properties[1].details # <<>>
    /\ scan.current_property # <<>>
    /\ scan.current_property[1].property_id = "UNKNOWN"
    /\ scan.current_property[1].title # scan.properties[1].title

\* the line the loop is about to go through is a details line
AtDetailsLine ==
    /\ scan.pc = "loop"
    /\ scan.i <= Len(response)
    /\ IsFullDetailsLine(response[scan.i])

\* the three keys a details line sets
DetailsOf(d) ==
    <<[bedrooms |-> d.bedrooms,
       bathrooms |-> Reduce(d.tenths, 10),
       property_type |-> Lower(d.ptype)]>>

(***************************************************************************)
(* C21.  A details line changes only the currently open record: with no    *)
(* record open it is ignored, and with a record open it sets bedrooms,     *)
(* bathrooms and property_type on that record, keeps the record's title,   *)
(* neighborhood, city, state and price, and leaves every record already    *)
(* flushed unchanged.                                                      *)
(***************************************************************************)
C21_DetailsChangeOnlyOpenRecord ==
    [][AtDetailsLine =>
          /\ scan'.properties = scan.properties
          /\ IF scan.current_property = <<>>
             THEN scan'.current_property = <<>>
             ELSE /\ Len(scan'.current_property) = 1
                  /\ LET before == scan.current_property[1]
                         after == scan'.current_property[1]
                     IN  /\ after.details = DetailsOf(response[scan.i])
                         /\ after.title = before.title
                         /\ after.neighborhood = before.neighborhood
                         /\ after.city = before.city
                         /\ after.state = before.state
                         /\ after.price = before.price]_vars

\* two title lines and then a details line: the first record is flushed without
\* details and stays so, the second has the details
C21_Witness ==
    /\ scan.pc = "loop"
    /\ scan.i = 4
    /\ IsTitleLine(response[1]) /\ IsTitleLine(response[2])
    /\ IsFullDetailsLine(response[3])
    /\ Len(scan.properties) = 1
    /\ scan.properties[1].details = <<>>
    /\ scan.current_property # <<>>
    /\ scan.current_property[1].details = DetailsOf(response[3])

\* the records the parser holds or has returned
RecordsHeld ==
    IF scan.pc = "returned" THEN parsed.value ELSE Assembled

\* the catalog's answer for a record
CatalogId(r) ==
    LET matched_id == find_matching_property_id(sample_properties, r)
    IN  IF matched_id.found THEN matched_id.id ELSE "UNKNOWN"

(***************************************************************************)
(* C22.  A record's property_id is resolved against the catalog only when  *)
(* a details line matches for it: a record without details has property_id *)
(* "UNKNOWN", whatever its title, city and price, and a record with        *)
(* details has the id of the catalog entry its title, city and price       *)
(* identify, or "UNKNOWN" when there is none.                              *)
(***************************************************************************)
C22_ResolvedOnlyByDetailsLine ==
    \A k \in 1..Len(RecordsHeld) :
        LET r == RecordsHeld[k]
        IN  IF r.details = <<>>
            THEN r.property_id = "UNKNOWN"
            ELSE r.property_id = CatalogId(r)

\* an answer of one title line that names a catalog entry, and of no details
\* line: the record returned is "UNKNOWN"
C22_Witness ==
    /\ scan.pc = "returned"
    /\ Len(response) >= 1
    /\ IsTitleLine(response[1])
    /\ \A i \in 2..Len(response) : response[i].shape = "raw"
    /\ Len(parsed.value) = 1
    /\ CatalogId(parsed.value[1]) = "PROP_001"
    /\ parsed.value[1].property_id = "UNKNOWN"

\* s without a ".0" at its end
WithoutTrailingPointZero(s) ==
    IF Len(s) >= 2 /\ SubSeq(s, Len(s) - 1, Len(s)) = <<".", "0">>
    THEN SubSeq(s, 1, Len(s) - 2)
    ELSE s

\* the amount of a title line without thousands separators and without a
\* trailing ".0"
PlainAmount(d) == WithoutTrailingPointZero(Remove(FormatAmount(d.amount), <<",">>))

(***************************************************************************)
(* C23.  For a matched title line the price is the amount string with      *)
(* thousands separators removed and only a trailing ".0" removed,          *)
(* converted to an integer; no other characters of the amount are dropped. *)
(***************************************************************************)
C23_OnlyTrailingPointZeroRemoved ==
    (scan.pc = "loop" /\ JustPassedTitle) =>
        LET price == ParseInt(PlainAmount(response[scan.i - 1]))
        IN  /\ price.ok
            /\ scan.current_property[1].price = price.value

(***************************************************************************)
(* Properties of the property matcher.                                     *)
(***************************************************************************)
\* entry i of the catalog agrees with the partial record: title and city
\* without regard to case, price exactly
Agrees(i) ==
    /\ Lower(sampleProperties[i].title) = Lower(partial.title)
    /\ Lower(sampleProperties[i].city) = Lower(partial.city)
    /\ sampleProperties[i].price = partial.price

AgreeingEntries == {i \in 1..Len(sampleProperties) : Agrees(i)}

\* C11: _find_matching_property_id returns the property_id of the first
\* catalog entry, in catalog order, whose title and city equal the partial
\* record's without regard to case and whose price equals its price exactly,
\* and None when no entry satisfies all three (a price off by 1 is no match).
C11_FirstAgreeingEntry ==
    matched.done =>
        /\ (AgreeingEntries = {} => ~matched.found)
        /\ (AgreeingEntries # {} =>
               /\ matched.found
               /\ \E i \in AgreeingEntries :
                     /\ \A j \in AgreeingEntries : i <= j
                     /\ matched.id = sampleProperties[i].property_id)
        /\ (\A i \in 1..Len(sampleProperties) :
               (sampleProperties[i].price - partial.price) \in {1, -1}
                   => matched.id # sampleProperties[i].property_id)

\* two entries agree with the partial record, in different letter case, and
\* the first one's id is returned
C11_Witness ==
    /\ matched.done
    /\ Len(sampleProperties) = 2
    /\ AgreeingEntries = {1, 2}
    /\ sampleProperties[1].title # partial.title
    /\ sampleProperties[1].city # partial.city
    /\ matched.found
    /\ matched.id = "PROP_001"

(***************************************************************************)
(* Properties of the evaluator.                                            *)
(***************************************************************************)
\* the lines of the judge's reply as _parse_evaluation sees them
ReplySeen ==
    IF reply.content.none THEN <<>>
    ELSE LET lines == Split(Strip(reply.content.text))
         IN  [i \in 1..Len(lines) |-> Strip(lines[i])]

TaggedLines(tag) == {i \in 1..Len(ReplySeen) : startswith(ReplySeen[i], tag)}

\* the text after the tag of line i
TagValue(i) == Strip(AfterColon(ReplySeen[i]))

\* the ACCURACY lines whose value is a decimal number, and the others
WellFormedAccuracy == {i \in TaggedLines(AccuracyTag) : float_of(TagValue(i)).ok}
MalformedAccuracy == TaggedLines(AccuracyTag) \ WellFormedAccuracy

Last(S) == CHOOSE i \in S : \A j \in S : j <= i

\* the value each field takes when its lines are read on their own
AccuracyAlone ==
    IF WellFormedAccuracy = {} THEN Zero ELSE float_of(TagValue(Last(WellFormedAccuracy))).value
IsCorrectAlone ==
    /\ TaggedLines(IsCorrectTag) # {}
    /\ Lower(TagValue(Last(TaggedLines(IsCorrectTag)))) = TrueText
ReasoningAlone ==
    IF TaggedLines(ReasoningTag) = {} THEN <<>> ELSE TagValue(Last(TaggedLines(ReasoningTag)))

ParsedAlone ==
    /\ judged.value.accuracy = AccuracyAlone
    /\ judged.value.is_correct = IsCorrectAlone
    /\ judged.value.reasoning = ReasoningAlone

\* the all-default result whose reasoning reports the parse error
ParseErrorResult ==
    /\ judged.value.accuracy = Zero
    /\ judged.value.is_correct = FALSE
    /\ startswith(judged.value.reasoning, ParseErrorPrefix)

\* invoking the judge failed, or its reply could not be parsed
JudgeCallFailed == reply.kind \in {"raises", "no_choices"}
ReplyUnparseable == reply.kind = "reply" /\ (reply.content.none \/ MalformedAccuracy # {})

\* C14: evaluate_search_results never propagates an exception; when invoking
\* the judge or parsing its reply fails, the result has accuracy 0.0 and
\* is_correct False and is flagged with the error: under the key "error" when
\* the invocation failed, in a reasoning that starts with "Parse error: " when
\* the reply could not be parsed.
C14_EvaluateNeverRaises ==
    judged.op = "evaluate_search_results" =>
        /\ ~judged.raised
        /\ (JudgeCallFailed =>
               /\ judged.value.accuracy = Zero
               /\ judged.value.is_correct = FALSE
               /\ "error" \in judged.value.keys
               /\ judged.value.error # <<>>)
        /\ (ReplyUnparseable => ParseErrorResult)

\* the judge model raised and the evaluator returned the flagged zero result
C14_Witness ==
    /\ judged.op = "evaluate_search_results"
    /\ reply.kind = "raises"
    /\ ~judged.raised
    /\ judged.value.keys = {"accuracy", "is_correct", "error"}
    /\ judged.value.accuracy = Zero

\* C15 as stated: in _parse_evaluation a missing or malformed ACCURACY,
\* IS_CORRECT or REASONING line leaves that field, and only that field, at its
\* default, the other fields keep their parsed values, and parsing never
\* raises.
C15_TagsIndependent ==
    (judged.op = "_parse_evaluation" /\ ~reply.content.none) =>
        /\ ~judged.raised
        /\ ParsedAlone

\* C15, as the code has it: parsing never raises; the three fields are read
\* independently (a field without a line keeps its default, an IS_CORRECT
\* value other than "true" in any case gives False, the last line of a tag
\* wins) as long as every ACCURACY value is a number; an ACCURACY value that
\* float() rejects, or a reply without content, discards all three fields:
\* accuracy 0.0, is_correct False, reasoning "Parse error: ...".
C15_MalformedAccuracyDiscardsAll ==
    judged.op = "_parse_evaluation" =>
        /\ ~judged.raised
        /\ (ReplyUnparseable => ParseErrorResult)
        /\ (~ReplyUnparseable => ParsedAlone)

\* no ACCURACY line and an IS_CORRECT value that is not "true": both fields
\* are at their defaults and the reasoning keeps its parsed value
C15_Witness ==
    /\ judged.op = "_parse_evaluation"
    /\ ~reply.content.none
    /\ TaggedLines(AccuracyTag) = {}
    /\ \E i \in TaggedLines(IsCorrectTag) : TagValue(i) = <<"y", "e", "s">>
    /\ TaggedLines(ReasoningTag) # {}
    /\ judged.value.accuracy = Zero
    /\ judged.value.is_correct = FALSE
    /\ judged.value.reasoning = <<"o", "k", ":", " ", "a", "l", "l", " ", "m", "a", "t", "c", "h">>

(***************************************************************************)
(* Properties of the metrics aggregator.                                   *)
(***************************************************************************)
\* ten times a value of the record pool, whose denominators are 1 or 10
Tenths(value) == value.num * (10 \div value.den)

\* ten times the sum of a field over the first n records of a list
RECURSIVE TenthsOfAccuracy(_, _)
TenthsOfAccuracy(evaluations, n) ==
    IF n = 0 THEN 0
    ELSE TenthsOfAccuracy(evaluations, n - 1) + Tenths(evaluations[n].accuracy)

RECURSIVE TenthsOfLatency(_, _)
TenthsOfLatency(evaluations, n) ==
    IF n = 0 THEN 0
    ELSE TenthsOfLatency(evaluations, n - 1) + Tenths(evaluations[n].latency_ms)

CorrectCount(evaluations) ==
    Cardinality({i \in 1..Len(evaluations) : evaluations[i].is_correct})

\* the fraction value equals total / (scale * n)
IsQuotient(value, total, scale, n) ==
    /\ value.den > 0
    /\ value.num * scale * n = total * value.den

AllZeroSummary ==
    [accuracy |-> Zero, correctness_rate |-> Zero, avg_latency_ms |-> Zero,
     total_queries |-> 0]

\* C18: compile_results maps a configuration whose evaluation list is empty to
\* {accuracy: 0.0, correctness_rate: 0.0, avg_latency_ms: 0.0, total_queries: 0}
\* without raising, and the summary has exactly the configuration names of
\* its input.
C18_EmptyListAllZero ==
    compiled.done =>
        /\ ~compiled.raised
        /\ DOMAIN compiled.summary = DOMAIN configurationResults
        /\ \A name \in DOMAIN configurationResults :
              configurationResults[name] = <<>> => compiled.summary[name] = AllZeroSummary

\* two configurations, the first without evaluations, the second with some
C18_Witness ==
    /\ compiled.done
    /\ ~compiled.raised
    /\ DOMAIN configurationResults = MetricsNames
    /\ configurationResults[TEST_CONFIGURATIONS[1].name] = <<>>
    /\ configurationResults[TEST_CONFIGURATIONS[5].name] # <<>>
    /\ compiled.summary[TEST_CONFIGURATIONS[1].name].total_queries = 0
    /\ compiled.summary[TEST_CONFIGURATIONS[5].name].total_queries > 0

\* C19: for a configuration with n >= 1 records compile_results reports
\* accuracy = (sum of the accuracies) / n, correctness_rate = (number of
\* records with is_correct true) / n, avg_latency_ms = (sum of latency_ms) / n
\* and total_queries = n; accuracies [1.0, 0.0, 0.5] give exactly 0.5.
C19_UnweightedMeans ==
    compiled.done =>
        \A name \in DOMAIN configurationResults :
            LET evaluations == configurationResults[name]
                n == Len(evaluations)
                s == compiled.summary[name]
            IN  n >= 1 =>
                  /\ IsQuotient(s.accuracy, TenthsOfAccuracy(evaluations, n), 10, n)
                  /\ IsQuotient(s.correctness_rate, CorrectCount(evaluations), 1, n)
                  /\ IsQuotient(s.avg_latency_ms, TenthsOfLatency(evaluations, n), 10, n)
                  /\ s.total_queries = n
                  /\ ([i \in 1..n |-> Tenths(evaluations[i].accuracy)] = <<10, 0, 5>>
                        => s.accuracy = [num |-> 1, den |-> 2])

\* the accuracies of a configuration are [1.0, 0.0, 0.5] and its accuracy is 0.5
C19_Witness ==
    /\ compiled.done
    /\ \E name \in DOMAIN configurationResults :
          /\ Len(configurationResults[name]) = 3
          /\ [i \in 1..3 |-> Tenths(configurationResults[name][i].accuracy)] = <<10, 0, 5>>
          /\ compiled.summary[name].accuracy = [num |-> 1, den |-> 2]
          /\ compiled.summary[name].total_queries = 3

(***************************************************************************)
(* Properties of the evaluation pipeline.                                  *)
(***************************************************************************)
Cells == (1..Len(TEST_CONFIGURATIONS)) \X (1..Len(TEST_QUERIES))

ConfigurationName(c) == TEST_CONFIGURATIONS[c].name

\* what the agent and the judge do in the cell of configuration c, query q
BehaviourAt(c, q) == IF plan.odd_cell = <<c, q>> THEN plan.odd ELSE plan.base

\* the cell of configuration c and query q has been recorded
Recorded(c, q) ==
    \/ c < config_i
    \/ (c = config_i /\ pc # "configuration" /\ q <= Len(configuration_results))

\* the q-th record of configuration c
RecordAt(c, q) ==
    IF c < config_i THEN all_results[ConfigurationName(c)][q] ELSE configuration_results[q]

\* the cell's search raises into _test_configuration
SearchRaises(c, q) ==
    TEST_CONFIGURATIONS[c].use_vectors /\ BehaviourAt(c, q).agent.kind = "import_error"

\* the cell's search returns and the judge model cannot be invoked
JudgeFails(c, q) ==
    ~SearchRaises(c, q) /\ BehaviourAt(c, q).judge.kind \in {"raises", "no_choices"}

\* the agent's executor raises inside search_properties
AgentFails(c, q) ==
    TEST_CONFIGURATIONS[c].use_vectors /\ BehaviourAt(c, q).agent.kind = "raises"

ZeroScore(r) ==
    /\ {"accuracy", "is_correct"} \subseteq r.keys
    /\ r.accuracy = Zero
    /\ r.is_correct = FALSE

CarriesError(r) == "error" \in r.keys /\ r.error # <<>>

\* every external call of the run fails
EveryCallFails ==
    \A cq \in Cells :
        /\ BehaviourAt(cq[1], cq[2]).agent.kind \in {"raises", "import_error"}
        /\ BehaviourAt(cq[1], cq[2]).judge.kind \in {"raises", "no_choices"}

C13_FailedVectorSearchIsErrorRecord ==
    /\ pc # "raised"
    /\ \A cq \in Cells :
          (Recorded(cq[1], cq[2]) /\ (SearchRaises(cq[1], cq[2]) \/ AgentFails(cq[1], cq[2]))) =>
              /\ ZeroScore(RecordAt(cq[1], cq[2]))
              /\ CarriesError(RecordAt(cq[1], cq[2]))

\* C16: the latency of a cell brackets exactly the search call: in every
\* configuration the timer is stopped before the response parsing (with its
\* property-id matching) and the judging of the cell begin.
C16_TimerStoppedBeforeParsing ==
    pc \in {"_parse_agent_response", "evaluate_search_results"} => cell.timer = "stopped"

\* C17: every evaluation record the pipeline accumulates has an accuracy
\* within [0.0, 1.0], whatever the judge's ACCURACY line carries.
C17_AccuracyWithinUnitInterval ==
    \A cq \in Cells :
        Recorded(cq[1], cq[2]) =>
            LET accuracy == RecordAt(cq[1], cq[2]).accuracy
            IN  0 <= accuracy.num /\ accuracy.num <= accuracy.den

\* the search of the cell under test is running, has returned, or has raised
ScanRunning == pc = "_metadata_only_search"
AgentDelegated ==
    pc \in {"_vector_search_with_searchable_content", "_vector_search_description_only",
            "_parse_agent_response"}

\* what a search returns, from use_vectors, the query and the agent's response
SearchResultsFrom(use_vectors, query_text, agent) ==
    IF use_vectors
    THEN parse_agent_response(search_properties(agent)).value
    ELSE metadata_only_search(sample_properties, query_text)

\* configurations c and d differ at most in use_searchable_content and
\* use_amenities_filter
SameUseVectors(c, d) ==
    TEST_CONFIGURATIONS[c].use_vectors = TEST_CONFIGURATIONS[d].use_vectors

\* the record of a cell holds the ids its search returned
HoldsReturnedIds(r) == "returned_property_ids" \in r.keys

\* C24: the search step of a cell depends only on use_vectors and the query:
\* with use_vectors false the metadata-only scan runs, with use_vectors true
\* the search is delegated to the agent, the records a search returns are
\* determined by use_vectors, the query and the agent's response, and two
\* configurations that differ only in use_searchable_content or
\* use_amenities_filter have recorded, once both are finished, the same
\* returned ids for the same query when the agent and the judge respond alike.
C24_SearchDependsOnUseVectorsOnly ==
    /\ ScanRunning => ~config.use_vectors
    /\ AgentDelegated => config.use_vectors
    /\ pc = "end_time" =>
          cell.search_results =
              SearchResultsFrom(config.use_vectors, test_case.query, BehaviourNow.agent)
    /\ pc \in {"configuration", "done"} =>
          \A c, d \in 1..(config_i - 1) : \A q \in 1..Len(TEST_QUERIES) :
              (/\ c < d
               /\ SameUseVectors(c, d)
               /\ BehaviourAt(c, q) = BehaviourAt(d, q)) =>
                  /\ HoldsReturnedIds(RecordAt(c, q)) = HoldsReturnedIds(RecordAt(d, q))
                  /\ RecordAt(c, q).returned_property_ids = RecordAt(d, q).returned_property_ids

\* the agent answers and the judge replies in every cell: the cells of the
\* first query in the two vector configurations that differ only in
\* use_searchable_content hold the same id, and so do those of two scan
\* configurations
C24_Witness ==
    /\ pc = "done"
    /\ plan.odd_cell = <<0, 0>>
    /\ plan.base.agent.kind = "answer"
    /\ HoldsReturnedIds(RecordAt(5, 1))
    /\ RecordAt(5, 1).returned_property_ids = <<"PROP_001">>
    /\ RecordAt(7, 1).returned_property_ids = <<"PROP_001">>
    /\ RecordAt(1, 9).returned_property_ids = <<"PROP_002">>
    /\ RecordAt(4, 9).returned_property_ids = <<"PROP_002">>

(***************************************************************************)
(* Properties of the metadata-only search.                                 *)
(***************************************************************************)
\* the whitespace-delimited tokens of the lower-cased query
QueryTokens == Words(Lower(query))

\* the lower-cased "title description" text of the i-th listing
TitleDescription(i) == Lower(catalog[i].title \o <<" ">> \o catalog[i].description)

\* the positions, among the first ten, of the listings that hold a token
MatchingPositions ==
    {i \in 1..Len(catalog) :
        /\ i <= 10
        /\ \E token \in QueryTokens : Contains(TitleDescription(i), token)}

\* the position in the catalog of the k-th record returned
PositionReturned(k) ==
    CHOOSE i \in 1..Len(catalog) : catalog[i].property_id = found.value[k].property_id

\* C25: _metadata_only_search returns, in catalog order and without
\* duplicates, exactly those of the first 10 catalog records whose lower-cased
\* "title description" text contains at least one lower-cased
\* whitespace-delimited query token as a substring; records beyond the tenth
\* are never returned, and a query with no tokens returns no records.
C25_FirstTenHoldingAToken ==
    found.done =>
        /\ \A k \in 1..Len(found.value) :
              \E i \in 1..Len(catalog) : catalog[i].property_id = found.value[k].property_id
        /\ \A k \in 1..(Len(found.value) - 1) : PositionReturned(k) < PositionReturned(k + 1)
        /\ {PositionReturned(k) : k \in 1..Len(found.value)} = MatchingPositions
        /\ \A k \in 1..Len(found.value) : PositionReturned(k) <= 10
        /\ (QueryTokens = {} => found.value = <<>>)

\* a catalog of eleven listings that all hold a token of the query in upper
\* case: ten records are returned, the eleventh listing is not among them
C25_Witness ==
    /\ found.done
    /\ Len(catalog) = 11
    /\ Cardinality(QueryTokens) = 2
    /\ \A i \in 1..Len(catalog) : \E token \in QueryTokens : Contains(TitleDescription(i), token)
    /\ \E i \in 1..Len(catalog) : ~Contains(catalog[i].title \o <<" ">> \o catalog[i].description, query)
    /\ Len(found.value) = 10
    /\ found.value[10].property_id = "PROP_010"

\* the number of cells that have recorded their result
CellsRecorded ==
    Cardinality({cq \in Cells : Recorded(cq[1], cq[2])})

\* the cell under test, counted in the order configurations x test queries
CellNumber == (config_i - 1) * Len(TEST_QUERIES) + query_i

\* a cell is between its start and the append of its record
InCell ==
    pc \in {"_metadata_only_search", "_vector_search_with_searchable_content",
            "_vector_search_description_only", "_parse_agent_response", "end_time",
            "evaluate_search_results", "except"}

\* C26: cells execute strictly one at a time in a fixed order, configurations
\* in list order and within each configuration test queries in list order:
\* while a cell runs exactly the cells before it in that order are recorded,
\* and every step that records appends one record, that of the cell under
\* test, under its configuration's name.  The report is compiled and written
\* once, only after the last of the 80 cells has recorded its result.
C26_CellsInOrderReportOnceAtEnd ==
    [][/\ InCell => CellsRecorded = CellNumber - 1
       /\ configuration_results' # configuration_results =>
             \/ configuration_results' = <<>> /\ query_i' = 1 /\ config_i' = config_i
             \/ /\ InCell
                /\ Len(configuration_results) = query_i - 1
                /\ Len(configuration_results') = query_i
                /\ SubSeq(configuration_results', 1, query_i - 1) = configuration_results
                /\ configuration_results'[query_i].configuration = config.name
                /\ query_i' = query_i + 1
                /\ config_i' = config_i
       /\ config_i' # config_i =>
             /\ config_i' = config_i + 1
             /\ query_i = Len(TEST_QUERIES) + 1
             /\ all_results'[config.name] = configuration_results
       /\ report' # report =>
             /\ ~report.written
             /\ report'.written
             /\ CellsRecorded = 80
             /\ pc' = "done"]_vars

\* the run is over: the 80 cells are recorded under their configurations'
\* names and the report holds the summary of all of them
C26_Witness ==
    /\ pc = "done"
    /\ CellsRecorded = 80
    /\ \A cq \in Cells : RecordAt(cq[1], cq[2]).configuration = ConfigurationName(cq[1])
    /\ report.written
    /\ report.summary = compile_results(all_results).summary

\* a call made in the cell of configuration c and query q never returns
Stalls(c, q) ==
    \/ /\ TEST_CONFIGURATIONS[c].use_vectors
       /\ BehaviourAt(c, q).agent.kind = "hangs"
    \/ /\ BehaviourAt(c, q).judge.kind = "hangs"
       /\ ~SearchRaises(c, q)

\* every external call the run makes returns or raises
EveryCallReturns == \A cq \in Cells : ~Stalls(cq[1], cq[2])

ReportPersisted == pc = "done" /\ report.written

\* C27: if every external call (search agent, judge model) returns or raises,
\* run_full_evaluation eventually terminates with the report persisted; if
\* some external call never returns, the run reaches that call and stays at
\* it: no later cell runs and no report is ever written.
C27_TerminatesUnlessACallHangs ==
    /\ EveryCallReturns ~> ReportPersisted
    /\ (~EveryCallReturns) ~> []AtHangingCall
    /\ [](\A cq \in Cells :
             Stalls(cq[1], cq[2]) =>
                 /\ ~report.written
                 /\ pc # "done"
                 /\ InCell => CellNumber <= (cq[1] - 1) * Len(TEST_QUERIES) + cq[2]
                 /\ \A later \in Cells :
                       (later[1] > cq[1] \/ (later[1] = cq[1] /\ later[2] >= cq[2])) =>
                           ~Recorded(later[1], later[2]))

\* the judge's call of the first cell of the third configuration never returns:
\* the twenty cells before it are recorded and the run is at that call
C27_Witness ==
    /\ plan.odd_cell = <<3, 1>>
    /\ AtHangingCall
    /\ pc = "evaluate_search_results"
    /\ CellsRecorded = 20
    /\ ~report.written

\* the locals of a cell before its search, the timer running
SearchPoints ==
    {"_metadata_only_search", "_vector_search_with_searchable_content",
     "_vector_search_description_only"}

\* C28: running the evaluation never mutates the fixture catalog or the
\* test-query list: after any number of cells, in any configuration and
\* whether or not cells fail, both are equal to their values at pipeline
\* construction; and no other mutable state is carried from one configuration
\* to the next: a configuration starts with no records and every cell starts
\* its search with fresh locals.
C28_FixturesNeverMutated ==
    /\ sampleProperties = sample_properties
    /\ test_queries = TEST_QUERIES
    /\ (pc = "test_case" /\ query_i = 1) => configuration_results = <<>>
    /\ pc \in SearchPoints =>
          cell = [FreshCell EXCEPT !.timer = "running", !.start_time = clock]

\* the last configuration is running, a scan and a failed cell are behind, and
\* the catalog and the query list are as constructed
C28_Witness ==
    /\ config_i = 8
    /\ pc \in SearchPoints
    /\ query_i = 2
    /\ \E cq \in Cells : Recorded(cq[1], cq[2]) /\ CarriesError(RecordAt(cq[1], cq[2]))
    /\ \E cq \in Cells : Recorded(cq[1], cq[2]) /\ ~TEST_CONFIGURATIONS[cq[1]].use_vectors
    /\ sampleProperties = sample_properties
    /\ test_queries = TEST_QUERIES

(***************************************************************************)
(* Properties of upsert_properties.                                        *)
(***************************************************************************)
\* the listings that made a call raise
FailedThemselves ==
    {k \in 1..Len(property_listings) : property_listings[k].preparation # "ok"}

\* the listing numbered k was in a write that raised though the store rejected
\* none of its listings
LostWithTheConnection(k) ==
    \E w \in 1..Len(vector_store) :
        /\ vector_store[w].raised
        /\ Rejected(vector_store[w].ids) = {}
        /\ \E p \in 1..Len(vector_store[w].ids) : vector_store[w].ids[p] = k

\* the listings that made no call raise and whose write the connection did
\* not lose
DidNotFail ==
    {k \in 1..Len(property_listings) :
        k \notin FailedThemselves /\ ~LostWithTheConnection(k)}

\* the listing numbered k went into a write that returned, with its metadata
\* and its id
Upserted(k) ==
    \E w \in 1..Len(vector_store) :
        /\ ~vector_store[w].raised
        /\ \E p \in 1..Len(vector_store[w].ids) : vector_store[w].ids[p] = k

\* C29: in upsert_properties a failure is isolated to the item that caused
\* it and never aborts the run: items that did not themselves fail are still
\* upserted and counted as successful, and every later batch is still
\* attempted.
C29_FailureIsolatedToItem ==
    counts.returned =>
        /\ \A k \in DidNotFail : Upserted(k)
        /\ counts.successful >= Cardinality(DidNotFail)
        /\ upsert.i >= Len(property_listings)

\* C30: upsert_properties always returns counts with successful + failed =
\* total, where total is the number of listings passed in, for every batch
\* size >= 1 and every pattern of per-item preparation failures (at either
\* preparation step) and batch-write failures.
C30_CountsAddUp ==
    counts.returned =>
        /\ counts.total = Len(property_listings)
        /\ counts.successful + counts.failed = counts.total

====
